---- MODULE Spec2Model ----
(***************************************************************************)
(* A model of the AlphaGain back end (Back-end/routers/websocket.py and    *)
(* Back-end/agents/agno_finance_agent.py): the connection manager and its  *)
(* broadcast, the per-connection websocket handler, and the cached and     *)
(* rate-gated market-data fetch with its mock fallback.                    *)
(*                                                                         *)
(* The handler is an asyncio coroutine: code between two awaits runs       *)
(* without interruption.  Every action of the relay below is one such run: *)
(* it starts where a coroutine resumes and ends with the next await (a     *)
(* send, a receive) or with the end of the coroutine.                      *)
(***************************************************************************)
EXTENDS Integers, Sequences, FiniteSets, TLC

VARIABLES
    active_connections, \* manager.active_connections: the list of registered transports
    h,                  \* per transport: the position and the locals of its websocket_chat coroutine
    inbox,              \* per transport: the events send_json delivered to it, in order
    tstate,             \* per transport: "idle", "open" or "gone" (the client went away)
    api_cache,          \* api_cache: cache_key -> JSON result
    last_api_call_time, \* last_api_call_time
    now,                \* the wall clock read by time.time()
    has_key,            \* whether POLYGON_API_KEY is set in the environment
    remote_log,         \* history: the clock readings at which a remote call was issued
    last_fetch,         \* history: the latest call of get_chart_data
    conversation_sessions, \* conversation_sessions[user_id] of the agent, for one user_id
    agent_runs,         \* the generators of run_agent in flight, and history: entries appended so far
    answer_scan,               \* the scan desk: a complete answer and what the ticker scan makes of it
    mock,               \* the generator desk: one run of generate_mock_chart_data, point by point
    tool_turn,          \* the tool desk: the chart locals of one AI turn and its fetch
    agent_ctx,          \* the session desk: history of who appended what and what run_agent read
    loop                \* the loop desk: which coroutine holds the event loop's thread, and the frames that wait

vars == <<active_connections, h, inbox, tstate, api_cache, last_api_call_time,
          now, has_key, remote_log, last_fetch, conversation_sessions, agent_runs,
          answer_scan, mock, tool_turn, agent_ctx, loop>>

relayVars == <<active_connections, h, inbox, tstate>>
fetchVars == <<api_cache, last_api_call_time, remote_log, last_fetch>>
agentVars == <<conversation_sessions, agent_runs>>
deskVars == <<tool_turn, agent_ctx, loop>>
auxVars == <<agentVars, answer_scan, mock, deskVars>>

-----------------------------------------------------------------------------
(* Bounds of the model *)

NumConns == 3       \* transports that may connect
MaxPlain == 1       \* frames the room reads after the joins, all handlers together
MaxTime == 11       \* the clock stops here
MaxLatency == 1     \* clock ticks between the two time.time() readings of one fetch
NumDraws == 2       \* distinct outcomes of the unseeded random draws of the mock generator
NumPayloads == 1    \* distinct non-empty answers of the remote provider
SmallRoom == 2      \* clients of the lobby and of the chart desk
MaxChartFrames == 2 \* frames the chart desk reads after the joins
MaxProtocolFrames == 2 \* frames the protocol desk reads after the joins
MaxTurns == 22      \* calls of run_agent for the session
MaxCompleted == 2   \* those of them whose generator runs to its end
MaxInFlight == 2    \* generators of the session that run at the same time
MaxWords == 6       \* words of a complete answer on the scan desk
MaxAsks == 3        \* calls of run_agent on the session desk
MaxWaiting == 2     \* frames that wait at one socket on the loop desk

(* Program constants *)

API_CALL_DELAY == 5

\* time.time() is seconds since 1970, far more than API_CALL_DELAY after the
\* initial last_api_call_time of 0: the first fetch is never gated.
HISTORY_LIMIT == 20
StartTime == API_CALL_DELAY

WS == 1..NumConns
None == "None"

-----------------------------------------------------------------------------
(* Strings.  str.upper and str.strip on the strings the model uses. *)

Upper(s) ==
    CASE s = "aapl" -> "AAPL"
      [] s = " tsla " -> " TSLA "
      [] s = "tsla" -> "TSLA"
      [] s = "unknown" -> "UNKNOWN"
      [] OTHER -> s

Strip(s) ==
    CASE s = " tsla " -> "tsla"
      [] s = " TSLA " -> "TSLA"
      [] s = " " -> ""
      [] s = " hi " -> "hi"
      [] OTHER -> s

valid_tickers ==
    {"AAPL", "MSFT", "GOOGL", "GOOG", "AMZN", "META", "TSLA", "NVDA", "AMD",
     "INTC", "IBM", "CSCO", "ORCL", "ADBE", "CRM", "NFLX", "PYPL", "QCOM",
     "TXN", "SPY", "QQQ", "DIA", "VTI", "VOO"}

-----------------------------------------------------------------------------
(* Series: the JSON text get_chart_data returns.  kind tells which return   *)
(* statement built it; data is the list of points, <<>> when empty.  A mock *)
(* series is fixed by the draw of the generator's random numbers and clock. *)

RealSeries(ticker, timeframe, payload) ==
    [kind |-> "real", ticker |-> ticker, timeframe |-> timeframe,
     data |-> <<payload>>, error |-> ""]

ErrorSeries(ticker, timeframe, msg) ==
    [kind |-> "error", ticker |-> ticker, timeframe |-> timeframe,
     data |-> <<>>, error |-> msg]

generate_mock_chart_data(ticker, timeframe, draw) ==
    [kind |-> "mock", ticker |-> Upper(ticker), timeframe |-> timeframe,
     data |-> <<draw>>, error |-> ""]

\* What a call that propagated an exception would hand to its caller.
Raised(exc) ==
    [kind |-> "raised", ticker |-> "", timeframe |-> "", data |-> <<>>, error |-> exc]

NoSeries ==
    [kind |-> "none", ticker |-> "", timeframe |-> "", data |-> <<>>, error |-> ""]

-----------------------------------------------------------------------------
(* get_chart_data *)

CacheKey(ticker, timeframe) == Upper(ticker) \o "_" \o timeframe

\* A variant that never finds an entry, and the lookup of lines 75-77.
CacheHitNever(cache, cache_key) == FALSE
CacheHit(cache, cache_key) == cache_key \in DOMAIN cache

\* A variant of the store that keeps no other entry.
CachePutAlone(cache, cache_key, value) == [k \in {cache_key} |-> value]

CachePut(cache, cache_key, value) ==
    [k \in DOMAIN cache \cup {cache_key} |-> IF k = cache_key THEN value ELSE cache[k]]

\* A variant with the comparison turned round, and the gate of lines 81-84.
GateBlocksInverted(current_time, last) == current_time - last > API_CALL_DELAY
GateBlocks(current_time, last) == current_time - last < API_CALL_DELAY

\* What the remote provider can do with one request.
RemoteOutcomes == {"results", "empty", "api_error", "403", "429", "500", "exception"}

\* The inputs of one call that the caller does not choose: the clock ticks
\* between the two readings, the provider's behaviour and answer, the random draw.
Oracles ==
    [lat : 0..MaxLatency, outcome : RemoteOutcomes, payload : 1..NumPayloads,
     draw : 1..NumDraws]

\* The body of the try block from the remote call on: the value returned, or
\* the exception that leaves the block.
RemoteCall(cache, cache_key, ticker, timeframe, orc) ==
    CASE orc.outcome = "results" ->
            [exc |-> None, path |-> "results",
             result |-> RealSeries(ticker, timeframe, orc.payload),
             cache |-> CachePut(cache, cache_key, RealSeries(ticker, timeframe, orc.payload))]
      [] orc.outcome = "api_error" ->
            [exc |-> None, path |-> "api_error",
             result |-> ErrorSeries(ticker, timeframe, "Polygon API error"),
             cache |-> cache]
      [] orc.outcome = "empty" ->
            [exc |-> None, path |-> "empty",
             result |-> ErrorSeries(ticker, timeframe, "No data available"),
             cache |-> cache]
      [] orc.outcome \in {"403", "429", "500"} ->
            [exc |-> "HTTPStatusError", path |-> orc.outcome, result |-> NoSeries,
             cache |-> cache]
      [] OTHER ->
            [exc |-> "Exception", path |-> "exception", result |-> NoSeries,
             cache |-> cache]

\* except httpx.HTTPStatusError, status 429: mock data, cached under cache_key.
OnRateLimited(cache, cache_key, ticker, timeframe, draw) ==
    [result |-> generate_mock_chart_data(ticker, timeframe, draw),
     cache |-> CachePut(cache, cache_key, generate_mock_chart_data(ticker, timeframe, draw))]

\* A variant of the 403 clause that stores the error series.
OnAuthErrorCached(cache, ticker, timeframe) ==
    [result |-> ErrorSeries(ticker, timeframe, "Authentication error with Polygon API"),
     cache |-> CachePut(cache, CacheKey(ticker, timeframe),
                        ErrorSeries(ticker, timeframe, "Authentication error with Polygon API"))]

\* except httpx.HTTPStatusError, status 403.
OnAuthError(cache, ticker, timeframe) ==
    [result |-> ErrorSeries(ticker, timeframe, "Authentication error with Polygon API"),
     cache |-> cache]

\* A variant of the clause for other statuses that stores the error series.
OnHttpErrorCached(cache, ticker, timeframe) ==
    [result |-> ErrorSeries(ticker, timeframe, "Error calling Polygon API"),
     cache |-> CachePut(cache, CacheKey(ticker, timeframe),
                        ErrorSeries(ticker, timeframe, "Error calling Polygon API"))]

\* except httpx.HTTPStatusError, any other status.
OnHttpError(cache, ticker, timeframe) ==
    [result |-> ErrorSeries(ticker, timeframe, "Error calling Polygon API"),
     cache |-> cache]

\* except Exception.
OnException(cache, ticker, timeframe) ==
    [result |-> ErrorSeries(ticker, timeframe, "Error fetching chart data"),
     cache |-> cache]

\* A variant without the last except clause: other exceptions leave the function.
ExceptClausesLeaky(r, cache_key, ticker, timeframe, orc) ==
    CASE r.exc = None -> [result |-> r.result, cache |-> r.cache]
      [] r.exc = "HTTPStatusError" /\ r.path = "403" -> OnAuthError(r.cache, ticker, timeframe)
      [] r.exc = "HTTPStatusError" /\ r.path = "429" ->
            OnRateLimited(r.cache, cache_key, ticker, timeframe, orc.draw)
      [] r.exc = "HTTPStatusError" -> OnHttpError(r.cache, ticker, timeframe)
      [] OTHER -> [result |-> Raised(r.exc), cache |-> r.cache]

\* The except clauses of get_chart_data (lines 204-237).
ExceptClauses(r, cache_key, ticker, timeframe, orc) ==
    CASE r.exc = None -> [result |-> r.result, cache |-> r.cache]
      [] r.exc = "HTTPStatusError" /\ r.path = "403" -> OnAuthError(r.cache, ticker, timeframe)
      [] r.exc = "HTTPStatusError" /\ r.path = "429" ->
            OnRateLimited(r.cache, cache_key, ticker, timeframe, orc.draw)
      [] r.exc = "HTTPStatusError" -> OnHttpError(r.cache, ticker, timeframe)
      [] OTHER -> OnException(r.cache, ticker, timeframe)

StampKept(last, issued) == last

\* Lines 151-152: the gate takes the clock reading made immediately before
\* the request is sent.
Stamp(last, issued) == issued

\* One call.  t is the clock at entry.  The answer holds the returned series,
\* the new cache and gate, whether and when a remote call was issued, and the
\* return statement taken (path).
get_chart_data(cache, last, t, key_set, ticker, timeframe, orc) ==
    LET cache_key == CacheKey(ticker, timeframe)
        issued == t + orc.lat
        tried == RemoteCall(cache, cache_key, Upper(ticker), timeframe, orc)
        done == ExceptClauses(tried, cache_key, Upper(ticker), timeframe, orc)
    IN  IF CacheHit(cache, cache_key)
        THEN [result |-> cache[cache_key], cache |-> cache, last |-> last,
              remote |-> FALSE, issued |-> t, path |-> "hit"]
        ELSE IF GateBlocks(t, last)
        THEN [result |-> generate_mock_chart_data(ticker, timeframe, orc.draw),
              cache |-> cache, last |-> last, remote |-> FALSE, issued |-> t,
              path |-> "gate"]
        ELSE IF ~key_set
        THEN [result |-> ErrorSeries(ticker, timeframe, "Polygon API key not configured"),
              cache |-> cache, last |-> last, remote |-> FALSE, issued |-> t,
              path |-> "no_key"]
        ELSE [result |-> done.result, cache |-> done.cache,
              last |-> Stamp(last, issued),
              remote |-> TRUE, issued |-> issued, path |-> tried.path]

\* The history record of a call: who called, with what, what came back, and
\* the cache and gate the call found.
FetchRecord(caller, ticker, timeframe, t, cache, last, g) ==
    [caller |-> caller, ticker |-> ticker, timeframe |-> timeframe, at |-> t,
     path |-> g.path, remote |-> g.remote, result |-> g.result,
     cache_before |-> cache, gate_before |-> last]

NoFetch ==
    [caller |-> 0, ticker |-> "", timeframe |-> "", at |-> 0, path |-> "none",
     remote |-> FALSE, result |-> NoSeries, cache_before |-> <<>>, gate_before |-> 0]

EmptyCache == [k \in {} |-> NoSeries]

-----------------------------------------------------------------------------
(* The relay: ConnectionManager and the websocket_chat coroutine.           *)

\* The user_id path parameter of each transport's URL.  Two transports may
\* carry the same user_id (one user, two tabs).
UserId(w) == IF w <= 2 THEN "u1" ELSE "u2"

\* Exceptions a failed send_json raises: starlette's WebSocketDisconnect, or
\* another Exception (RuntimeError, ConnectionClosed) depending on the server.
SendErrors == {"WebSocketDisconnect", "Exception"}

NoEvent ==
    [type |-> "none", src |-> 0, n |-> 0, k |-> 0, user_id |-> "", content |-> "",
     users |-> <<>>, series |-> NoSeries]

\* An outbound JSON message.  src, n and k are history: the handler that
\* issued it, the frame it was processing and the ordinal of the message
\* among those it issued for that frame.
Event(S, w, type, user_id, content, users, series) ==
    [type |-> type, src |-> w, n |-> S.h[w].n, k |-> S.h[w].k + 1, user_id |-> user_id,
     content |-> content, users |-> users, series |-> series]

NoBc == [ev |-> NoEvent, i |-> 0, exclude |-> 0, site |-> "", stable |-> {}]
NoDone == [ev |-> NoEvent, stable |-> {}, exclude |-> 0, failed |-> 0, ok |-> FALSE]
NoTurn == [on |-> FALSE, chunks |-> <<>>, completes |-> 0]
NoReq ==
    [type |-> "none", ticker |-> "", content |-> "", fetched |-> FALSE, ai_toggle |-> FALSE]

\* The coroutine of a transport before the client connects.
H0 ==
    [pc |-> "init",             \* where the coroutine is suspended
     user_connection |-> FALSE, \* user_connection is not None
     username |-> "",
     n |-> 0,                   \* history: frames read so far
     k |-> 0,                   \* history: messages issued for the current frame
     valid_bound |-> FALSE,     \* the local valid_tickers has been assigned
     bc |-> NoBc,               \* the broadcast in progress: message, list index, exclude, call site
     exc |-> None,              \* the exception a failed send raised
     site |-> "",               \* the call site of the send that raised
     done |-> NoDone,           \* history: the broadcast this handler finished last
     ai_toggle |-> FALSE,
     chunks |-> <<>>,           \* what the agent's generator has yet to yield
     ai_response |-> <<>>,
     stock_chart_requested |-> FALSE,
     chart_ticker |-> None,
     req |-> NoReq,             \* history: the frame in hand, and whether get_chart_data ran for it
     turn |-> NoTurn,           \* history: what the agent's generator yields in the turn of this frame
     prev |-> "none"]           \* history: the kind of the frame read before the one in hand

Range(seq) == {seq[i] : i \in 1..Len(seq)}

Min(S) == CHOOSE x \in S : \A y \in S : x <= y

\* A variant that lists the registry without its last entry.
UsersWithoutLast(ac, hh) ==
    [i \in 1..(IF Len(ac) = 0 THEN 0 ELSE Len(ac) - 1) |->
        <<UserId(ac[i]), hh[ac[i]].username>>]

\* ConnectionManager.get_active_users
RECURSIVE get_active_users(_, _)
get_active_users(ac, hh) ==
    IF ac = <<>> THEN <<>>
    ELSE <<<<UserId(Head(ac)), hh[Head(ac)].username>>>> \o get_active_users(Tail(ac), hh)

\* list.remove: the list without the first entry of the transport.
RemoveFirst(ac, w) ==
    LET j == Min({i \in 1..Len(ac) : ac[i] = w})
    IN  [i \in 1..(Len(ac) - 1) |-> IF i < j THEN ac[i] ELSE ac[i + 1]]

disconnectKeeps(S, w) == S

\* ConnectionManager.disconnect: what it returns.  The username of the entry
\* of the transport, None when there is no such entry.
disconnect_returns(S, w) ==
    IF w \in Range(S.ac) THEN S.h[w].username ELSE None

\* ConnectionManager.disconnect: the entry of the transport is removed when
\* there is one.  The broadcasts in progress lose it from the set of
\* transports registered throughout.
disconnect(S, w) ==
    IF w \in Range(S.ac)
    THEN [S EXCEPT !.ac = RemoveFirst(S.ac, w),
                   !.h = [x \in WS |-> [S.h[x] EXCEPT !.bc.stable = @ \ {w}]]]
    ELSE S

\* The coroutine goes back to "data = await websocket.receive_text()".  The
\* locals of the turn are dead there: they are assigned again before any use.
ToReceive(S, w) ==
    [S EXCEPT !.h[w].pc = "receive", !.h[w].bc = NoBc, !.h[w].exc = None,
              !.h[w].site = "", !.h[w].ai_toggle = FALSE, !.h[w].chunks = <<>>,
              !.h[w].ai_response = <<>>, !.h[w].stock_chart_requested = FALSE,
              !.h[w].chart_ticker = None]

\* The coroutine is over.
ToClosed(S, w) ==
    [ToReceive(S, w) EXCEPT !.h[w].pc = "closed"]

\* A send raised: the coroutine resumes in the except clause that catches it.
ToRaised(S, w, site, exc) ==
    [S EXCEPT !.h[w].pc = "raised", !.h[w].site = site, !.h[w].exc = exc,
              !.h[w].bc = NoBc]

\* ConnectionManager.send_personal_message to the handler's own transport,
\* followed by the "continue" or the end of the loop body.
send_to_all(S, w, content, site, o) ==
    LET ev == Event(S, w, "error", "", content, <<>>, NoSeries)
        S1 == [S EXCEPT !.h[w].k = @ + 1]
    IN  ToReceive([S1 EXCEPT !.inbox = [c \in WS |-> IF tstate[c] = "open" /\ c \in Range(S.ac)
                                                     THEN Append(@[c], ev) ELSE @[c]]], w)

send_personal_message(S, w, content, site, o) ==
    LET ev == Event(S, w, "error", "", content, <<>>, NoSeries)
        S1 == [S EXCEPT !.h[w].k = @ + 1]
    IN  IF tstate[w] = "open"
        THEN ToReceive([S1 EXCEPT !.inbox[w] = Append(@, ev)], w)
        ELSE ToRaised(S1, w, site, o.exc)

\* The call get_chart_data(ticker, timeframe) of handler w.
CallFetch(S, w, ticker, timeframe, o) ==
    LET g == get_chart_data(S.cache, S.last, S.now, has_key, ticker, timeframe, o)
    IN  [S EXCEPT !.cache = g.cache, !.last = g.last, !.now = g.issued,
                  !.rlog = IF g.remote THEN Append(S.rlog, g.issued) ELSE S.rlog,
                  !.lf = FetchRecord(w, ticker, timeframe, S.now, S.cache, S.last, g),
                  !.h[w].req.fetched = TRUE]

-----------------------------------------------------------------------------
(* The text of an AI answer is a sequence of words.  A symbol is a word of  *)
(* one to five capital letters, what ([A-Z]{1,5})\b captures.               *)

Symbols == valid_tickers \cup {"XYZQ"}

\* One pattern of ticker_patterns: the words that must stand before the
\* captured symbol and the words that must follow it.
Pattern(pre, post) == [pre |-> pre, post |-> post]

ticker_patterns ==
    << Pattern({<<"for">>}, {<<>>}),
       Pattern({<<"about">>}, {<<>>}),
       Pattern({<<>>}, {<<"stock">>, <<"ticker">>, <<"price">>, <<"shares">>}),
       Pattern({<<>>}, {<<"is", "trading">>, <<"is", "priced">>, <<"is", "currently">>}),
       Pattern({<<"stock", "symbol">>, <<"stock", "ticker">>}, {<<>>}),
       Pattern({<<"ticker", "symbol">>}, {<<>>}),
       Pattern({<<"price", "of">>, <<"looking", "at">>}, {<<>>}) >>

\* The words of text from position a on start with the words of part.
StartsAt(text, a, part) ==
    /\ a >= 1
    /\ a + Len(part) - 1 <= Len(text)
    /\ \A j \in 1..Len(part) : text[a + j - 1] = part[j]

MatchesAt(pattern, text, i) ==
    /\ text[i] \in Symbols
    /\ \E pre \in pattern.pre : StartsAt(text, i - Len(pre), pre)
    /\ \E post \in pattern.post : StartsAt(text, i + 1, post)

\* re.findall(pattern, text): the captured symbols, left to right.
RECURSIVE FindAllFrom(_, _, _)
FindAllFrom(pattern, text, i) ==
    IF i > Len(text) THEN <<>>
    ELSE IF MatchesAt(pattern, text, i)
         THEN <<text[i]>> \o FindAllFrom(pattern, text, i + 1)
         ELSE FindAllFrom(pattern, text, i + 1)

FindAll(pattern, text) == FindAllFrom(pattern, text, 1)

FirstCapture(matches) == IF matches = <<>> THEN None ELSE matches[1]

\* The first capture of the pattern that is in valid_tickers, or None.
FirstValid(matches) ==
    LET ok == {i \in 1..Len(matches) : matches[i] \in valid_tickers}
    IN  IF ok = {} THEN None ELSE matches[Min(ok)]

\* The scan of the complete answer: patterns in order, first valid capture.
RECURSIVE ScanFrom(_, _)
ScanFrom(text, p) ==
    IF p > Len(ticker_patterns) THEN None
    ELSE IF FirstValid(FindAll(ticker_patterns[p], text)) # None
         THEN FirstValid(FindAll(ticker_patterns[p], text))
         ELSE ScanFrom(text, p + 1)

ScanTickers(text) == ScanFrom(text, 1)

-----------------------------------------------------------------------------
(* run_agent: what the generator of one turn yields for an answer of the    *)
(* model (finance_agent.run is the language model, an input).               *)

Chunk(kind, output, name, ticker) ==
    [kind |-> kind, output |-> output, name |-> name, ticker |-> ticker]

\* tool_patterns: the phrase found in the answer names the tool.
ToolOf(text) ==
    IF \E i \in 1..Len(text) : text[i] = "generating chart" THEN "PolygonStockChartTool"
    ELSE IF \E i \in 1..Len(text) : text[i] = "checking news" THEN "PolygonNewsTool"
    ELSE None

\* The agent's own ticker guess: "for X", else "about X", else "unknown".
AgentTicker(text) ==
    LET fors == FindAll(Pattern({<<"for">>}, {<<>>}), text)
        abouts == FindAll(Pattern({<<"about">>}, {<<>>}), text)
    IN  IF fors # <<>> THEN fors[1]
        ELSE IF abouts # <<>> THEN abouts[1]
        ELSE "unknown"

Outputs(text) == [i \in 1..Len(text) |-> Chunk("output", text[i], "", "")]

\* The chunks of a turn.  An answer of <<"!">> stands for finance_agent.run
\* raising: the generator yields one apology and returns.
generate_response(text) ==
    IF text = <<"!">> THEN <<Chunk("output", "Sorry, I encountered an error", "", "")>>
    ELSE IF ToolOf(text) # None
    THEN << Chunk("tool_call", "", ToolOf(text), AgentTicker(text)),
            Chunk("output", text[1], "", ""),
            Chunk("tool_result", "", ToolOf(text), "") >> \o Outputs(Tail(text))
    ELSE Outputs(text)

-----------------------------------------------------------------------------
(* websocket_chat.  Each operator takes the state S at the place it models  *)
(* and runs the coroutine of transport w up to its next await; o holds the  *)
(* inputs the run may draw (the exception of a failed send, the answer of   *)
(* the language model, the inputs of get_chart_data).                       *)

RECURSIVE BroadcastLoop(_, _, _), AfterBroadcast(_, _, _, _), StreamLoop(_, _, _),
          AfterStream(_, _, _), broadcast(_, _, _, _, _, _)

\* except Exception of the message loop (lines 702-707).
Inner702(S, w, o) ==
    send_personal_message(S, w, "Error processing request", "p_702", o)

\* except Exception as stream_err (lines 583-591).
StreamErr(S, w, o) ==
    broadcast(S, w, Event(S, w, "error", "", "Error generating response", <<>>, NoSeries),
              0, "stream_err", o)

\* except Exception as e around the AI turn (lines 643-648).
TurnErr(S, w, o) ==
    broadcast(S, w, Event(S, w, "error", "", "AI response error", <<>>, NoSeries),
              0, "turn_err", o)

\* A variant in which the clause for other exceptions does not unregister.
OuterKeepsOnError(S, w, exc, o) ==
    IF ~S.h[w].user_connection THEN ToClosed(S, w)
    ELSE IF exc = "WebSocketDisconnect" /\ w \in Range(S.ac) /\ S.h[w].username # ""
    THEN broadcast(disconnect(S, w), w,
                   Event(S, w, "system", "", "has left the chat",
                         get_active_users(disconnect(S, w).ac, S.h), NoSeries),
                   0, "leave", o)
    ELSE ToClosed(S, w)

\* The except clauses of the whole coroutine (lines 709-723).
Outer(S, w, exc, o) ==
    IF ~S.h[w].user_connection THEN ToClosed(S, w)
    ELSE IF exc = "WebSocketDisconnect" /\ w \in Range(S.ac) /\ S.h[w].username # ""
    THEN broadcast(disconnect(S, w), w,
                   Event(S, w, "system", "", "has left the chat",
                         get_active_users(disconnect(S, w).ac, S.h), NoSeries),
                   0, "leave", o)
    ELSE ToClosed(disconnect(S, w), w)

\* A variant that passes nobody by, and the test of line 59: the entry is
\* passed by when exclude is given and is the entry's transport.
SkipsNobody(exclude, connection) == FALSE
Skips(exclude, connection) == exclude # 0 /\ connection = exclude

\* ConnectionManager.broadcast: the call and the first pass through the loop.
broadcast(S, w, ev, exclude, site, o) ==
    BroadcastLoop([S EXCEPT !.h[w].k = @ + 1,
                            !.h[w].bc = [ev |-> ev, i |-> 1, exclude |-> exclude,
                                         site |-> site, stable |-> Range(S.ac)]],
                  w, o)

\* "for connection in self.active_connections": the list iterator holds an
\* index into the live list.  Entries equal to exclude are passed without an
\* await; the next other entry is sent to, and the coroutine is suspended in
\* that send.  When the index is past the end of the list the loop is over.
BroadcastLoop(S, w, o) ==
    LET bc == S.h[w].bc
        rest == {j \in bc.i..Len(S.ac) : ~Skips(bc.exclude, S.ac[j])}
        j == Min(rest)
        c == S.ac[j]
        finished(ok, failed) ==
            [ev |-> bc.ev, stable |-> bc.stable, exclude |-> bc.exclude,
             failed |-> failed, ok |-> ok]
    IN  IF rest = {}
        THEN AfterBroadcast([S EXCEPT !.h[w].bc = NoBc, !.h[w].done = finished(TRUE, 0)],
                            w, bc.site, o)
        ELSE IF tstate[c] = "open"
        THEN [S EXCEPT !.inbox[c] = Append(@, bc.ev), !.h[w].bc.i = j + 1,
                       !.h[w].pc = "sending"]
        ELSE ToRaised([S EXCEPT !.h[w].done = finished(FALSE, c)], w, bc.site, o.exc)

\* The chart part of an AI turn (lines 621-641), after ai_complete went out.
AiChart(S, w, o) ==
    IF S.h[w].stock_chart_requested /\ S.h[w].chart_ticker \notin {None, ""}
    THEN LET S1 == CallFetch(S, w, S.h[w].chart_ticker, "1W", o)
         IN  broadcast(S1, w, Event(S1, w, "chart_data", "ai_requested", "", <<>>, S1.lf.result),
                       0, "ai_chart", o)
    ELSE ToReceive(S, w)

AiEnabledAlways(ai_toggle) == TRUE

\* Line 464, "if ai_toggle:".
AiEnabled(ai_toggle) == ai_toggle

\* What follows a broadcast that returned, by call site.
AfterBroadcast(S, w, site, o) ==
    CASE site = "chat" ->
            IF AiEnabled(S.h[w].ai_toggle)
            THEN broadcast(S, w, Event(S, w, "typing", "ai", "", <<>>, NoSeries), 0, "ai_typing", o)
            ELSE ToReceive(S, w)
      [] site = "ai_typing" ->
            StreamLoop([S EXCEPT !.h[w].valid_bound = TRUE,
                                 !.h[w].chunks = generate_response(o.answer),
                                 !.h[w].turn = [on |-> TRUE,
                                                chunks |-> generate_response(o.answer),
                                                completes |-> 0]], w, o)
      [] site = "stream" -> StreamLoop(S, w, o)
      [] site = "stream_err" -> AfterStream(S, w, o)
      [] site = "ai_complete" -> AiChart(S, w, o)
      [] site = "ai_chart" ->
            broadcast(S, w, Event(S, w, "update_chart", "", S.h[w].chart_ticker, <<>>, NoSeries),
                      0, "update_chart", o)
      [] site = "leave" -> ToClosed(S, w)
      [] OTHER -> ToReceive(S, w)   \* join, typing, chart_req, update_chart, turn_err

\* "async for chunk in await run_agent(...)": the next chunk and its broadcast.
LastChunk(chunks) == chunks[Len(chunks)]

\* Line 532, "async for chunk in ...": the chunks come in the order in which
\* the generator yields them.
NextChunk(chunks) == Head(chunks)

StreamLoop(S, w, o) ==
    IF S.h[w].chunks = <<>> THEN AfterStream(S, w, o)
    ELSE LET chunk == NextChunk(S.h[w].chunks)
             S1 == [S EXCEPT !.h[w].chunks = Tail(@)]
         IN  CASE chunk.kind = "output" ->
                    broadcast([S1 EXCEPT !.h[w].ai_response = Append(@, chunk.output)], w,
                              Event(S1, w, "ai_stream", "ai", chunk.output, <<>>, NoSeries),
                              0, "stream", o)
               [] chunk.kind = "tool_call" ->
                    broadcast(IF chunk.name = "PolygonStockChartTool"
                              THEN [S1 EXCEPT !.h[w].stock_chart_requested = TRUE,
                                              !.h[w].chart_ticker = chunk.ticker]
                              ELSE S1,
                              w, Event(S1, w, "tool_call", "ai", "started", <<>>, NoSeries),
                              0, "stream", o)
               [] OTHER ->
                    broadcast(S1, w, Event(S1, w, "tool_call", "ai", "completed", <<>>, NoSeries),
                              0, "stream", o)

ScanRunsOnText(stock_chart_requested, ai_response) == ai_response # <<>>

\* Line 594, "if not stock_chart_requested and ai_response:".
ScanRuns(stock_chart_requested, ai_response) ==
    ~stock_chart_requested /\ ai_response # <<>>

\* The scan of the complete answer (lines 593-612) and ai_complete.
AfterStream(S, w, o) ==
    LET scan == ScanRuns(S.h[w].stock_chart_requested, S.h[w].ai_response)
        found == IF scan THEN ScanTickers(S.h[w].ai_response) ELSE None
        S1 == IF found # None
              THEN [S EXCEPT !.h[w].stock_chart_requested = TRUE, !.h[w].chart_ticker = found]
              ELSE S
        S2 == [S1 EXCEPT !.h[w].turn.completes = @ + 1]
    IN  broadcast(S2, w, Event(S2, w, "ai_complete", "ai", "", <<>>, NoSeries),
                  0, "ai_complete", o)

\* A send raised at site: the except clause that catches it.
OnRaised(S, w, o) ==
    LET site == S.h[w].site
    IN  CASE site \in {"join", "p_json", "p_702"} -> Outer(S, w, S.h[w].exc, o)
          [] site = "stream" -> StreamErr(S, w, o)
          [] site \in {"stream_err", "ai_complete"} -> TurnErr(S, w, o)
          [] site \in {"ai_chart", "update_chart"} -> ToReceive(S, w)
          [] site = "chart_req" ->
                send_personal_message(S, w, "Error fetching chart data", "p_684", o)
          [] site = "leave" -> ToClosed(S, w)
          [] OTHER -> Inner702(S, w, o)  \* chat, ai_typing, typing, turn_err, p_empty, p_invalid, p_684

\* An inbound text frame.  json tells what json.loads makes of it: an
\* "object", "invalid" (JSONDecodeError) or a value that is no object ("other").
Frame(json, type, content, ai_toggle, ticker, username) ==
    [json |-> json, type |-> type, content |-> content, ai_toggle |-> ai_toggle,
     ticker |-> ticker, username |-> username]

\* A variant that lets every ticker pass, and "if ticker not in valid_tickers"
\* (line 664).
NotAllowedNever(ticker) == FALSE
NotAllowed(ticker) == ticker \notin valid_tickers

\* Lines 650-687 of the message loop: a chart_request.
ChartRequest(S, w, f, o) ==
    LET ticker == Upper(Strip(f.ticker))
    IN  IF ticker = ""
        THEN send_personal_message(S, w, "No ticker symbol provided", "p_empty", o)
        ELSE IF ~S.h[w].valid_bound
        THEN Inner702(S, w, o)      \* UnboundLocalError: valid_tickers is assigned in the chat branch only
        ELSE IF NotAllowed(ticker)
        THEN send_personal_message(S, w, "Invalid ticker symbol", "p_invalid", o)
        ELSE LET S1 == CallFetch(S, w, ticker, "1W", o)
             IN  broadcast(S1, w, Event(S1, w, "chart_data", UserId(w), "", <<>>, S1.lf.result),
                           0, "chart_req", o)

\* Lines 436-707: one frame read in the message loop, up to the next await.
IsBlankEmptyOnly(content) == content = ""

\* Line 449, "if not content.strip(): continue".
IsBlank(content) == Strip(content) = ""

Dispatch(S0, w, f, o) ==
    LET S == [S0 EXCEPT !.h[w].n = @ + 1, !.h[w].k = 0,
                        !.h[w].req = [type |-> IF f.json = "object" THEN f.type ELSE f.json,
                                      ticker |-> Upper(Strip(f.ticker)),
                                      content |-> f.content, fetched |-> FALSE,
                                      ai_toggle |-> f.type = "chat" /\ f.ai_toggle],
                        !.h[w].turn = NoTurn,
                        !.h[w].prev = S0.h[w].req.type]
    IN  CASE f.json = "invalid" ->
                send_personal_message(S, w, "Invalid JSON format", "p_json", o)
          [] f.json = "other" -> Inner702(S, w, o)    \* AttributeError: no .get
          [] f.type = "chat" ->
                IF IsBlank(f.content) THEN ToReceive(S, w)
                ELSE broadcast([S EXCEPT !.h[w].ai_toggle = f.ai_toggle], w,
                               Event(S, w, "chat", UserId(w), f.content, <<>>, NoSeries),
                               0, "chat", o)
          [] f.type = "chart_request" -> ChartRequest(S, w, f, o)
          [] f.type = "typing" ->
                broadcast(S, w, Event(S, w, "typing", UserId(w), "", <<>>, NoSeries),
                          w, "typing", o)
          [] OTHER -> ToReceive(S, w)

RegisterTwice(ac, w) == Append(Append(ac, w), w)

\* Line 421: manager.active_connections.append(user_connection), once per
\* handler, with the handler's own transport.
Register(ac, w) == Append(ac, w)

\* Lines 416-432: the first frame.  Any JSON object is taken as the join.
Join(S0, w, f, o) ==
    LET S == [S0 EXCEPT !.h[w].n = @ + 1, !.h[w].k = 0,
                        !.h[w].req = [type |-> IF f.json = "object" THEN f.type ELSE f.json,
                                      ticker |-> "", content |-> f.content, fetched |-> FALSE,
                                      ai_toggle |-> FALSE]]
        username == IF f.username # None THEN f.username ELSE "User-" \o UserId(w)
        S1 == [S EXCEPT !.h[w].user_connection = TRUE, !.h[w].username = username,
                        !.ac = Register(@, w)]
    IN  IF f.json # "object" THEN Outer(S, w, "Exception", o)
        ELSE broadcast(S1, w,
                       Event(S1, w, "system", "", "has joined the chat",
                             get_active_users(S1.ac, S1.h), NoSeries),
                       0, "join", o)

-----------------------------------------------------------------------------
(* Actions *)

St ==
    [ac |-> active_connections, h |-> h, inbox |-> inbox, cache |-> api_cache,
     last |-> last_api_call_time, now |-> now, rlog |-> remote_log, lf |-> last_fetch]

Commit(S) ==
    /\ S.now <= MaxTime
    /\ active_connections' = S.ac
    /\ h' = S.h
    /\ inbox' = S.inbox
    /\ api_cache' = S.cache
    /\ last_api_call_time' = S.last
    /\ now' = S.now
    /\ remote_log' = S.rlog
    /\ last_fetch' = S.lf
    /\ UNCHANGED <<tstate, has_key, auxVars>>

\* The remote provider as the relay meets it: it answers at once, and the
\* mock generator draws one series.
RelayOracles ==
    {orc \in Oracles : orc.lat = 0 /\ orc.draw = 1 /\ orc.outcome \in {"results", "403", "429"}}

\* The inputs a run may draw.
AnyExc(e) == [lat |-> 0, outcome |-> "results", payload |-> 1, draw |-> 1,
              exc |-> e, answer |-> <<>>]
WithFetch(o, f) == [o EXCEPT !.lat = f.lat, !.outcome = f.outcome,
                             !.payload = f.payload, !.draw = f.draw]
WithAnswer(o, a) == [o EXCEPT !.answer = a]

\* A client opens the websocket: accept, then the wait for the first frame.
Connect(w) ==
    /\ tstate[w] = "idle"
    /\ \A x \in WS : x < w => tstate[x] # "idle"   \* handles are numbered as they connect
    /\ tstate' = [tstate EXCEPT ![w] = "open"]
    /\ h' = [h EXCEPT ![w].pc = "await_join"]
    /\ UNCHANGED <<active_connections, inbox, fetchVars, now, has_key, auxVars>>

\* The client goes away: from now on send_json to it raises, and its own
\* receive_text raises WebSocketDisconnect.
ClientGone(w) ==
    /\ tstate[w] = "open"
    /\ tstate' = [tstate EXCEPT ![w] = "gone"]
    /\ UNCHANGED <<active_connections, h, inbox, fetchVars, now, has_key, auxVars>>

ReceiveJoin(w, f) ==
    /\ h[w].pc = "await_join"
    /\ tstate[w] = "open"
    /\ \E e \in SendErrors : Commit(Join(St, w, f, AnyExc(e)))

\* Frames read after the join frames, all handlers together.
RECURSIVE FramesRead(_)
FramesRead(ws) ==
    IF ws = {} THEN 0
    ELSE LET w == CHOOSE x \in ws : TRUE
         IN  (IF h[w].n > 1 THEN h[w].n - 1 ELSE 0) + FramesRead(ws \ {w})

Receive(w, f, budget) ==
    /\ h[w].pc = "receive"
    /\ tstate[w] = "open"
    /\ FramesRead(WS) < budget
    /\ \E e \in SendErrors, fo \in RelayOracles :
          Commit(Dispatch(St, w, f, WithFetch(AnyExc(e), fo)))

\* A frame that arrives while no other coroutine is in the middle of a frame.
ReceiveInTurn(w, f, budget) ==
    /\ \A x \in WS \ {w} : h[x].pc \notin {"sending", "raised"}
    /\ Receive(w, f, budget)

ReceiveDisconnect(w) ==
    /\ h[w].pc \in {"await_join", "receive"}
    /\ tstate[w] = "gone"
    /\ \E e \in SendErrors : Commit(Outer(St, w, "WebSocketDisconnect", AnyExc(e)))

\* A send returned: the broadcast loop goes on.
ResumeSend(w, answers) ==
    /\ h[w].pc = "sending"
    /\ \E e \in SendErrors :
       \E a \in IF h[w].bc.site = "ai_typing" THEN answers ELSE {<<>>} :
       \E fo \in IF h[w].bc.site = "ai_complete" THEN RelayOracles ELSE {AnyExc(e)} :
          Commit(BroadcastLoop(St, w, WithAnswer(WithFetch(AnyExc(e), fo), a)))

\* A send raised: the except clause runs.
ResumeRaised(w) ==
    /\ h[w].pc = "raised"
    /\ \E e \in SendErrors : Commit(OnRaised(St, w, AnyExc(e)))

-----------------------------------------------------------------------------
(* The fetch subsystem on its own: get_chart_data called directly, with any *)
(* ticker and timeframe of the input sets.                                  *)

TickerInputs == {"AAPL", "aapl", "XYZQ"}
TimeframeInputs == {"1W", "1M"}

InitRelay ==
    /\ active_connections = <<>>
    /\ h = [w \in WS |-> H0]
    /\ inbox = [w \in WS |-> <<>>]
    /\ tstate = [w \in WS |-> "idle"]

\* The relay's events do not depend on the agent's conversation history (the
\* answer is an input of the model), so the desks of the relay leave it as
\* it starts; the history desk runs the agent alone.
NoRuns == [running |-> 0, appended |-> 0, completed |-> 0]

InitAgent ==
    /\ conversation_sessions = <<>>
    /\ agent_runs = NoRuns

NoScan == [text |-> <<>>, found |-> "", done |-> FALSE]
NoMock == [phase |-> "none"]

NoTool == [phase |-> "none"]
NoCtx == [phase |-> "none"]
NoLoop == [phase |-> "none"]

InitDesks ==
    /\ tool_turn = NoTool
    /\ agent_ctx = NoCtx
    /\ loop = NoLoop

InitAux ==
    /\ InitAgent
    /\ answer_scan = NoScan
    /\ mock = NoMock
    /\ InitDesks

InitFetchState ==
    /\ api_cache = EmptyCache
    /\ last_api_call_time = 0
    /\ now = StartTime
    /\ remote_log = <<>>
    /\ last_fetch = NoFetch

InitFetchVars ==
    /\ InitAux
    /\ api_cache = EmptyCache
    /\ last_api_call_time = 0
    /\ now = StartTime
    /\ has_key \in BOOLEAN
    /\ remote_log = <<>>
    /\ last_fetch = NoFetch

Tick ==
    /\ now < MaxTime
    /\ now' = now + 1
    /\ UNCHANGED <<relayVars, fetchVars, has_key, auxVars>>

\* The inputs that can make a difference to a call in the present state: a
\* cache hit and a missing key read none of them, a gate skip reads the random
\* draw only, the provider's answer matters when it has results and the draw
\* when it throttles.
FetchInputs(ticker, timeframe) ==
    IF CacheHit(api_cache, CacheKey(ticker, timeframe))
    THEN {orc \in Oracles : orc.lat = 0 /\ orc.outcome = "results" /\ orc.payload = 1 /\ orc.draw = 1}
    ELSE IF GateBlocks(now, last_api_call_time)
    THEN {orc \in Oracles : orc.lat = 0 /\ orc.outcome = "results" /\ orc.payload = 1}
    ELSE IF ~has_key
    THEN {orc \in Oracles : orc.lat = 0 /\ orc.outcome = "results" /\ orc.payload = 1 /\ orc.draw = 1}
    ELSE {orc \in Oracles : /\ orc.outcome # "results" => orc.payload = 1
                            /\ orc.outcome # "429" => orc.draw = 1}

Fetch(ticker, timeframe, orc) ==
    LET g == get_chart_data(api_cache, last_api_call_time, now, has_key,
                            ticker, timeframe, orc)
    IN  /\ g.issued <= MaxTime
        /\ api_cache' = g.cache
        /\ last_api_call_time' = g.last
        /\ now' = g.issued
        /\ remote_log' = IF g.remote THEN Append(remote_log, g.issued) ELSE remote_log
        /\ last_fetch' = FetchRecord(0, ticker, timeframe, now, api_cache,
                                     last_api_call_time, g)
        /\ UNCHANGED <<relayVars, has_key, auxVars>>

-----------------------------------------------------------------------------
(* The state after the first clients have joined one after the other, each  *)
(* join broadcast run to its end before the next client connects.           *)

JoinFrame == Frame("object", "join", "", FALSE, "", "alice")

RECURSIVE RunBroadcast(_, _, _)
RunBroadcast(S, w, o) ==
    IF S.h[w].pc = "sending" THEN RunBroadcast(BroadcastLoop(S, w, o), w, o) ELSE S

RECURSIVE Joined(_, _)
Joined(S, n) ==
    IF n = 0 THEN S
    ELSE LET S1 == Joined(S, n - 1)
             S2 == [S1 EXCEPT !.h[n].pc = "await_join"]
         IN  RunBroadcast(Join(S2, n, JoinFrame, AnyExc("Exception")), n, AnyExc("Exception"))

JoinedState(n) ==
    Joined([ac |-> <<>>, h |-> [w \in WS |-> H0], inbox |-> [w \in WS |-> <<>>],
            cache |-> EmptyCache, last |-> 0, now |-> StartTime,
            rlog |-> <<>>, lf |-> NoFetch], n)

\* The first n clients have joined and wait for frames; the others have not
\* connected.
IsJoined(n) ==
    /\ tstate = [w \in WS |-> IF w <= n THEN "open" ELSE "idle"]
    /\ active_connections = JoinedState(n).ac
    /\ h = JoinedState(n).h
    /\ inbox = JoinedState(n).inbox

InitJoined(n) ==
    /\ IsJoined(n)
    /\ InitAux
    /\ api_cache = EmptyCache
    /\ last_api_call_time = 0
    /\ now = StartTime
    /\ has_key = TRUE
    /\ remote_log = <<>>
    /\ last_fetch = NoFetch

-----------------------------------------------------------------------------
(* The lobby: clients connect, send their first frame, type, chat without   *)
(* the AI and go away.                                                      *)

PlainFrames ==
    { Frame("object", "typing", "", FALSE, "", None),
      Frame("object", "chat", " hi ", FALSE, "", None),
      Frame("object", "chat", " ", TRUE, "", None),
      Frame("object", "chat", "", FALSE, "", None) }

\* First frames: a join, a chat message sent before any join, a frame that is
\* no JSON.
JoinFrames ==
    { JoinFrame,
      Frame("object", "chat", "hi", FALSE, "", None),
      Frame("invalid", "", "", FALSE, "", None) }

Init == InitRelay /\ InitFetchVars /\ has_key

Next ==
    \/ \E w \in 1..SmallRoom : Connect(w)
    \/ \E w \in WS, f \in JoinFrames : ReceiveJoin(w, f)
    \/ \E w \in WS, f \in PlainFrames : Receive(w, f, MaxPlain)
    \/ \E w \in WS : ClientGone(w)
    \/ \E w \in WS : ReceiveDisconnect(w)
    \/ \E w \in WS : ResumeSend(w, {<<>>})
    \/ \E w \in WS : ResumeRaised(w)

Spec == Init /\ [][Next]_vars

\* The lobby reaches the state the room and the chart desk start from.
LobbyFills == IsJoined(SmallRoom)

-----------------------------------------------------------------------------
(* The room: every client has joined; they type, chat without the AI and go *)
(* away.                                                                    *)

InitRoom == InitJoined(NumConns)

NextRoom ==
    \/ \E w \in WS : ClientGone(w)
    \/ \E w \in WS, f \in PlainFrames : Receive(w, f, MaxPlain)
    \/ \E w \in WS : ReceiveDisconnect(w)
    \/ \E w \in WS : ResumeSend(w, {<<>>})
    \/ \E w \in WS : ResumeRaised(w)

SpecRoom == InitRoom /\ [][NextRoom]_vars

-----------------------------------------------------------------------------
(* The chart desk: two clients have joined; they ask the AI, request charts *)
(* and go away.                                                             *)

ChartFrames ==
    { Frame("object", "chat", "hi", TRUE, "", None),
      Frame("object", "chart_request", "", FALSE, " tsla ", None),
      Frame("object", "chart_request", "", FALSE, "XYZQ", None),
      Frame("object", "chart_request", "", FALSE, " ", None) }

\* What the language model may answer, as words.
Answers ==
    { <<>>,
      <<"!">>,
      <<"about", "TSLA">>,
      <<"generating chart", "for", "XYZQ">> }

InitChart == InitJoined(SmallRoom)

NextChart ==
    \/ \E w \in WS : ClientGone(w)
    \/ \E w \in WS, f \in ChartFrames : ReceiveInTurn(w, f, MaxChartFrames)
    \/ \E w \in WS : ReceiveDisconnect(w)
    \/ \E w \in WS : ResumeSend(w, Answers)
    \/ \E w \in WS : ResumeRaised(w)

SpecChart == InitChart /\ [][NextChart]_vars

(* The turn desk: two joined clients chat, with the AI toggle on and off.   *)
TurnFrames ==
    { Frame("object", "chat", "hi", TRUE, "", None),
      Frame("object", "chat", " hi ", FALSE, "", None) }

InitTurn == InitJoined(SmallRoom)

NextTurn ==
    \/ \E w \in WS : ClientGone(w)
    \/ \E w \in WS, f \in TurnFrames : ReceiveInTurn(w, f, MaxChartFrames)
    \/ \E w \in WS : ReceiveDisconnect(w)
    \/ \E w \in WS : ResumeSend(w, Answers)
    \/ \E w \in WS : ResumeRaised(w)

SpecTurn == InitTurn /\ [][NextTurn]_vars

-----------------------------------------------------------------------------
(* The ask desk: two joined clients ask the AI; the answers name a chart   *)
(* tool and a ticker that the text scan would not pick, another tool, or   *)
(* no tool.                                                                 *)
AskFrames == { Frame("object", "chat", "hi", TRUE, "", None) }

AskAnswers ==
    { <<>>,
      <<"about", "TSLA">>,
      <<"XYZQ", "stock">>,
      <<"checking news", "about", "TSLA">>,
      <<"generating chart", "for", "XYZQ", "about", "TSLA">> }

InitAsk == InitJoined(SmallRoom)

NextAsk ==
    \/ \E w \in WS : ClientGone(w)
    \/ \E w \in WS, f \in AskFrames : ReceiveInTurn(w, f, MaxPlain)
    \/ \E w \in WS : ReceiveDisconnect(w)
    \/ \E w \in WS : ResumeSend(w, AskAnswers)
    \/ \E w \in WS : ResumeRaised(w)

SpecAsk == InitAsk /\ [][NextAsk]_vars

-----------------------------------------------------------------------------
(* The tool desk: the chart locals of AI turns against a collaborator that  *)
(* names a tool, a ticker and, or not, a timeframe in its tool-started      *)
(* event, and the chart fetch at the end of the turn.                       *)
ToolNames == {"PolygonStockChartTool", "PolygonNewsTool"}
ToolTickers == {"AAPL", "XYZQ"}
\* None: the arguments hold no "timeframe".
ToolTimeframes == {None, "1W", "1M"}

ToolEvents == [name : ToolNames, ticker : ToolTickers, timeframe : ToolTimeframes]

\* Lines 522-525: the locals of a turn before the stream.
TurnLocals(ev) ==
    [phase |-> "stream", ev |-> ev, stock_chart_requested |-> FALSE,
     chart_ticker |-> None, chart_timeframe |-> "1W"]

InitTool ==
    /\ InitRelay
    /\ InitFetchState
    /\ InitAgent
    /\ has_key \in BOOLEAN
    /\ answer_scan = NoScan
    /\ mock = NoMock
    /\ agent_ctx = NoCtx
    /\ loop = NoLoop
    /\ \E ev \in ToolEvents : tool_turn = TurnLocals(ev)

toolFrame == <<relayVars, has_key, agentVars, answer_scan, mock, agent_ctx, loop>>

\* Lines 546-558: a tool_call chunk.  For the chart tool the ticker and the
\* timeframe argument, "1W" when there is none, are kept.
ToolStarted ==
    /\ tool_turn.phase = "stream"
    /\ tool_turn' =
          IF tool_turn.ev.name = "PolygonStockChartTool"
          THEN [tool_turn EXCEPT !.phase = "streamed",
                                 !.stock_chart_requested = TRUE,
                                 !.chart_ticker = tool_turn.ev.ticker,
                                 !.chart_timeframe = IF tool_turn.ev.timeframe # None
                                                     THEN tool_turn.ev.timeframe ELSE "1W"]
          ELSE [tool_turn EXCEPT !.phase = "streamed"]
    /\ UNCHANGED <<toolFrame, fetchVars, now>>

\* Lines 621-625: "if stock_chart_requested and chart_ticker:" and the call
\* get_chart_data(chart_ticker, "1W").
TurnFetch ==
    /\ tool_turn.phase = "streamed"
    /\ tool_turn.stock_chart_requested /\ tool_turn.chart_ticker \notin {None, ""}
    /\ \E orc \in FetchInputs(tool_turn.chart_ticker, "1W") :
          LET g == get_chart_data(api_cache, last_api_call_time, now, has_key,
                                  tool_turn.chart_ticker, "1W", orc)
          IN  /\ g.issued <= MaxTime
              /\ api_cache' = g.cache
              /\ last_api_call_time' = g.last
              /\ now' = g.issued
              /\ remote_log' = IF g.remote THEN Append(remote_log, g.issued) ELSE remote_log
              /\ last_fetch' = FetchRecord(0, tool_turn.chart_ticker, "1W", now, api_cache,
                                           last_api_call_time, g)
    /\ tool_turn' = [tool_turn EXCEPT !.phase = "fetched"]
    /\ UNCHANGED toolFrame

\* A turn without a chart is over.
TurnWithoutChart ==
    /\ tool_turn.phase = "streamed"
    /\ ~tool_turn.stock_chart_requested
    /\ tool_turn' = [tool_turn EXCEPT !.phase = "over"]
    /\ UNCHANGED <<toolFrame, fetchVars, now>>

\* The next AI turn begins.
TurnBegins ==
    /\ tool_turn.phase \in {"fetched", "over"}
    /\ \E ev \in ToolEvents : tool_turn' = TurnLocals(ev)
    /\ UNCHANGED <<toolFrame, fetchVars, now>>

ToolTick ==
    /\ now < MaxTime
    /\ now' = now + 1
    /\ UNCHANGED <<toolFrame, fetchVars, tool_turn>>

NextTool == ToolStarted \/ TurnFetch \/ TurnWithoutChart \/ TurnBegins \/ ToolTick

SpecTool == InitTool /\ [][NextTool]_vars

-----------------------------------------------------------------------------

(* The protocol desk: two joined clients send frames that are no JSON,      *)
(* frames without a type or with an unknown one, and typing and chat frames.*)
ProtocolFrames ==
    { Frame("invalid", "", "", FALSE, "", None),
      Frame("object", "", "", FALSE, "", None),
      Frame("object", "ping", "", FALSE, "", None),
      Frame("object", "typing", "", FALSE, "", None),
      Frame("object", "chat", " hi ", FALSE, "", None) }

InitProtocol == InitJoined(SmallRoom)

NextProtocol ==
    \/ \E w \in WS : ClientGone(w)
    \/ \E w \in WS, f \in ProtocolFrames : Receive(w, f, MaxProtocolFrames)
    \/ \E w \in WS : ReceiveDisconnect(w)
    \/ \E w \in WS : ResumeSend(w, {<<>>})
    \/ \E w \in WS : ResumeRaised(w)

SpecProtocol == InitProtocol /\ [][NextProtocol]_vars

-----------------------------------------------------------------------------
(* The history desk: run_agent and its generator for one user_id.  Entries  *)
(* are numbered as they are appended.                                       *)

HistoryEntry(role, id) == [role |-> role, id |-> id]

LastOf(q, m) == IF Len(q) > m THEN SubSeq(q, Len(q) - m + 1, Len(q)) ELSE q

TrimNever(q) == q

\* Lines 419-420: the history is cut to its last 20 entries.
Trim(q) == IF Len(q) > HISTORY_LIMIT THEN LastOf(q, HISTORY_LIMIT) ELSE q

\* run_agent, lines 299-319 and 429: the user's message is appended and the
\* generator object is returned.
RunAgent ==
    /\ agent_runs.appended < MaxTurns
    /\ agent_runs.running < MaxInFlight
    /\ conversation_sessions' =
           Append(conversation_sessions, HistoryEntry("user", agent_runs.appended + 1))
    /\ agent_runs' = [agent_runs EXCEPT !.running = @ + 1, !.appended = @ + 1]
    /\ UNCHANGED <<relayVars, fetchVars, now, has_key, answer_scan, mock, deskVars>>

\* The generator is iterated to its end (lines 405-423): the answer is
\* appended and the history is cut.
GeneratorEnds ==
    /\ agent_runs.running > 0
    /\ agent_runs.completed < MaxCompleted
    /\ conversation_sessions' =
           Trim(Append(conversation_sessions,
                       HistoryEntry("assistant", agent_runs.appended + 1)))
    /\ agent_runs' = [agent_runs EXCEPT !.running = @ - 1, !.appended = @ + 1,
                                        !.completed = @ + 1]
    /\ UNCHANGED <<relayVars, fetchVars, now, has_key, answer_scan, mock, deskVars>>

\* finance_agent.run raises (lines 400-404): the apology is yielded and the
\* generator returns.
GeneratorRaises ==
    /\ agent_runs.running > 0
    /\ agent_runs' = [agent_runs EXCEPT !.running = @ - 1]
    /\ UNCHANGED <<relayVars, fetchVars, now, has_key, conversation_sessions, answer_scan, mock, deskVars>>

\* The consumer stops iterating before the end (the relay's broadcast raised
\* inside "async for"): the generator is closed at a yield, and nothing
\* after that yield runs.
GeneratorAbandoned ==
    /\ agent_runs.running > 0
    /\ agent_runs' = [agent_runs EXCEPT !.running = @ - 1]
    /\ UNCHANGED <<relayVars, fetchVars, now, has_key, conversation_sessions, answer_scan, mock, deskVars>>

InitHistory == InitRelay /\ InitFetchVars /\ has_key

NextHistory ==
    \/ RunAgent
    \/ GeneratorEnds
    \/ GeneratorRaises
    \/ GeneratorAbandoned

SpecHistory == InitHistory /\ [][NextHistory]_vars

-----------------------------------------------------------------------------
(* The session desk: the connections opened with one user_id call run_agent *)
(* (websocket.py, line 532, with the user_id of the URL in the message).    *)
(* conversation_sessions is the entry of that user_id.                      *)

\* The connections opened with the user_id of connection 1.
SameUser == {w \in WS : UserId(w) = UserId(1)}

InitSession ==
    /\ InitRelay
    /\ InitFetchState
    /\ InitAgent
    /\ has_key = TRUE
    /\ answer_scan = NoScan
    /\ mock = NoMock
    /\ tool_turn = NoTool
    /\ loop = NoLoop
    /\ agent_ctx = [phase |-> "run", owner |-> <<>>, reader |-> 0, context |-> <<>>,
                    inflight |-> {}]

sessionFrame == <<relayVars, fetchVars, now, has_key, answer_scan, mock, tool_turn, loop>>

\* run_agent for a message of connection w (lines 299-327 and 429): the
\* session is looked up by the message's user_id, the message is appended to
\* it and the entries before it are formatted into the context of the query.
\* owner and context are history: which connection appended each entry, and
\* the owners of the entries that went into the context.
RunAgentFor(w) ==
    /\ agent_ctx.phase = "run"
    /\ w \notin agent_ctx.inflight
    /\ agent_runs.appended < MaxAsks * 2
    /\ agent_runs.running + agent_runs.completed < MaxAsks
    /\ conversation_sessions' =
           Append(conversation_sessions, HistoryEntry("user", agent_runs.appended + 1))
    /\ agent_runs' = [agent_runs EXCEPT !.running = @ + 1, !.appended = @ + 1]
    /\ agent_ctx' = [agent_ctx EXCEPT !.owner = Append(@, w),
                                      !.reader = w,
                                      !.context = agent_ctx.owner,
                                      !.inflight = @ \cup {w}]
    /\ UNCHANGED sessionFrame

\* The generator of connection w's turn runs to its end (lines 405-423).
GeneratorEndsFor(w) ==
    /\ agent_ctx.phase = "run"
    /\ w \in agent_ctx.inflight
    /\ conversation_sessions' =
           Trim(Append(conversation_sessions,
                       HistoryEntry("assistant", agent_runs.appended + 1)))
    /\ agent_runs' = [agent_runs EXCEPT !.running = @ - 1, !.appended = @ + 1,
                                        !.completed = @ + 1]
    /\ agent_ctx' = [agent_ctx EXCEPT !.owner = Trim(Append(@, w)),
                                      !.inflight = @ \ {w}]
    /\ UNCHANGED sessionFrame

\* finance_agent.run raises in connection w's turn, or the handler stops
\* iterating: nothing more is appended.
GeneratorStopsFor(w) ==
    /\ agent_ctx.phase = "run"
    /\ w \in agent_ctx.inflight
    /\ agent_runs' = [agent_runs EXCEPT !.running = @ - 1, !.completed = @ + 1]
    /\ agent_ctx' = [agent_ctx EXCEPT !.inflight = @ \ {w}]
    /\ UNCHANGED <<sessionFrame, conversation_sessions>>

NextSession ==
    \/ \E w \in SameUser : RunAgentFor(w)
    \/ \E w \in SameUser : GeneratorEndsFor(w)
    \/ \E w \in SameUser : GeneratorStopsFor(w)

SpecSession == InitSession /\ [][NextSession]_vars

-----------------------------------------------------------------------------
(* The loop desk: the coroutines of the connections on the one thread of    *)
(* the event loop.  A coroutine runs from one await to the next; between    *)
(* them nothing else runs.  get_chart_data (a plain def that calls          *)
(* httpx.Client().get) and finance_agent.run are called without an await    *)
(* and without a thread of their own: the thread is held until they return. *)

BlockingCalls == {"remote", "agent"}

InitLoop ==
    /\ InitRelay
    /\ InitFetchState
    /\ InitAgent
    /\ has_key = TRUE
    /\ answer_scan = NoScan
    /\ mock = NoMock
    /\ tool_turn = NoTool
    /\ agent_ctx = NoCtx
    /\ loop = [phase |-> "run", holder |-> 0, wait |-> "none",
               pending |-> [x \in WS |-> 0], read |-> [x \in WS |-> FALSE]]

loopFrame == <<relayVars, fetchVars, now, has_key, agentVars, answer_scan, mock,
               tool_turn, agent_ctx>>

\* A client sends a frame: it waits at the socket until the handler's
\* receive_text is resumed.
FrameArrives(x) ==
    /\ loop.phase = "run"
    /\ loop.pending[x] < MaxWaiting
    /\ loop' = [loop EXCEPT !.pending[x] = @ + 1,
                            !.read = [y \in WS |-> FALSE]]
    /\ UNCHANGED loopFrame

\* The loop resumes the handler of x at "await websocket.receive_text()"
\* (line 436) and the handler processes the frame up to its next await.
ReadFrame(x) ==
    /\ loop.phase = "run"
    /\ loop.holder = 0
    /\ loop.pending[x] > 0
    /\ loop' = [loop EXCEPT !.pending[x] = @ - 1,
                            !.read = [y \in WS |-> y = x]]
    /\ UNCHANGED loopFrame

\* The handler of w reaches get_chart_data (lines 625 and 673; the request
\* of lines 155-157) or the generator reaches finance_agent.run (line 347 of
\* the agent): the call is entered on the loop's thread.
BlockingCall(w, kind) ==
    /\ loop.phase = "run"
    /\ loop.holder = 0
    /\ loop' = [loop EXCEPT !.holder = w, !.wait = kind,
                            !.read = [y \in WS |-> FALSE]]
    /\ UNCHANGED loopFrame

\* The remote side answers and the call returns.
CallReturns ==
    /\ loop.phase = "run"
    /\ loop.holder # 0
    /\ loop' = [loop EXCEPT !.holder = 0, !.wait = "none",
                            !.read = [y \in WS |-> FALSE]]
    /\ UNCHANGED loopFrame

NextLoop ==
    \/ \E x \in WS : FrameArrives(x)
    \/ \E x \in WS : ReadFrame(x)
    \/ \E w \in WS, kind \in BlockingCalls : BlockingCall(w, kind)
    \/ CallReturns

SpecLoop == InitLoop /\ [][NextLoop]_vars

-----------------------------------------------------------------------------

(* The scan desk: the scan of lines 593-612 applied to complete answers of  *)
(* up to MaxWords words.                                                    *)

ScanWords == {"for", "about", "stock", "AAPL", "TSLA", "XYZQ"}

ScanTexts == UNION {[1..n -> ScanWords] : n \in 0..MaxWords}

InitScan ==
    /\ InitRelay
    /\ InitFetchState
    /\ InitAgent
    /\ has_key = TRUE
    /\ mock = NoMock
    /\ InitDesks
    /\ \E text \in ScanTexts : answer_scan = [text |-> text, found |-> "", done |-> FALSE]

\* Lines 593-612 with stock_chart_requested False: an empty answer is not
\* scanned and found_ticker stays None.
Scan ==
    /\ ~answer_scan.done
    /\ answer_scan' =
           [answer_scan EXCEPT !.done = TRUE,
                               !.found = IF answer_scan.text # <<>>
                                         THEN ScanTickers(answer_scan.text)
                                         ELSE None]
    /\ UNCHANGED <<relayVars, fetchVars, now, has_key, agentVars, mock, deskVars>>

NextScan == Scan

SpecScan == InitScan /\ [][NextScan]_vars

-----------------------------------------------------------------------------
(* The generator desk: one run of generate_mock_chart_data, point by point. *)
(* Prices are counted in millionths of a dollar and are whole thousandths,  *)
(* so that the products with 1.001 and 0.999 are exact; dates are counted   *)
(* in hours, hour 0 being a Monday 00:00; volumes are shares.               *)

Cent == 10000
Hour == 1
Day == 24
Week == 7 * Day

ticker_prices(ticker) ==
    CASE ticker = "AAPL" -> 175000000
      [] ticker = "TSLA" -> 180000000
      [] OTHER -> 0     \* stands for None: the ticker is not in the table

\* sum(ord(c) for c in ticker), for the tickers of the desk.
ticker_hash(ticker) ==
    CASE ticker = "XYZQ" -> 88 + 89 + 90 + 81
      [] ticker = "" -> 0
      [] OTHER -> 0

\* Lines 307-313.
base_price(ticker) ==
    IF ticker_prices(ticker) # 0 THEN ticker_prices(ticker)
    ELSE (50 + (ticker_hash(ticker) % 300)) * 1000000

PointsAlways22(timeframe) == 22

\* Lines 268-305: points, start_date and interval by timeframe.
points(timeframe) ==
    CASE timeframe = "1D" -> 24
      [] timeframe = "1W" -> 7
      [] timeframe = "1M" -> 22
      [] timeframe = "3M" -> 65
      [] timeframe = "1Y" -> 52
      [] timeframe = "5Y" -> 60
      [] OTHER -> 22

start_date(timeframe, clock) ==
    CASE timeframe = "1D" -> clock - Day
      [] timeframe = "1W" -> clock - Week
      [] timeframe = "1M" -> clock - 30 * Day
      [] timeframe = "3M" -> clock - 90 * Day
      [] timeframe = "1Y" -> clock - 52 * Week
      [] timeframe = "5Y" -> clock - 365 * 5 * Day
      [] OTHER -> clock - 30 * Day

interval(timeframe) ==
    CASE timeframe = "1D" -> Hour
      [] timeframe = "1W" -> Day
      [] timeframe = "1M" -> Day
      [] timeframe = "3M" -> Day
      [] timeframe = "1Y" -> Week
      [] timeframe = "5Y" -> 30 * Day
      [] OTHER -> Day

\* datetime.weekday(): 0 is Monday.
weekday(date) == (date \div Day) % 7

\* Lines 392-399: the next time point; daily data skips the weekend.
RECURSIVE SkipWeekend(_)
SkipWeekend(date) == IF weekday(date) > 4 THEN SkipWeekend(date + Day) ELSE date

next_date(timeframe, date) ==
    IF interval(timeframe) = Day /\ timeframe # "5Y"
    THEN SkipWeekend(date + interval(timeframe))
    ELSE date + interval(timeframe)

\* current_date when point number i (from 0) is appended.
RECURSIVE date_of(_, _, _)
date_of(timeframe, clock, i) ==
    IF i = 0 THEN start_date(timeframe, clock)
    ELSE next_date(timeframe, date_of(timeframe, clock, i - 1))

\* round(x, 2): to the nearest cent, a tie to the even cent.
round2(x) ==
    LET lo == (x \div Cent) * Cent
        r == x - lo
    IN  IF r < Cent \div 2 THEN lo
        ELSE IF r > Cent \div 2 THEN lo + Cent
        ELSE IF (lo \div Cent) % 2 = 0 THEN lo ELSE lo + Cent

Abs(x) == IF x < 0 THEN 0 - x ELSE x
Max2(a, b) == IF a > b THEN a ELSE b
Min2(a, b) == IF a < b THEN a ELSE b

\* What the random module hands out in one pass of the loop.  day_change
\* is the sum of the trend, the normal variate and the event component and
\* can be any amount: a fall that takes the price to its floor, or a rise
\* of 0.004.  The other variates come in NumDraws combinations.
DayChanges(base) == {0 - (base \div 10) * 6, 4000}

Variates ==
    [d \in 1..NumDraws |->
        IF d = 1 THEN [open |-> -3, high |-> 0, low |-> 0, volume |-> 8]
        ELSE [open |-> 3, high |-> 7000, low |-> 3000, volume |-> 12]]

\* event is "i in event_days": days from 1 on, and only when points > 10.
MockDraws(base, n, i) ==
    [change : DayChanges(base), d : 1..NumDraws,
     event : IF n > 10 /\ i >= 1 THEN BOOLEAN ELSE {FALSE}]

NoPoint == [date |-> 0, open |-> 0, high |-> 0, low |-> 0, close |-> 0, volume |-> -1]

high_unfloored(open_price, current_price, noise) == current_price + noise

\* Lines 364 and 368.
high_of(open_price, current_price, noise) ==
    Max2(Max2(Max2(open_price, current_price) + noise,
              open_price + open_price \div 1000),
         current_price + current_price \div 1000)

\* Lines 365 and 371.
low_of(open_price, current_price, noise) ==
    Min2(Min2(Min2(open_price, current_price) - noise,
              open_price - open_price \div 1000),
         current_price - current_price \div 1000)

\* Lines 374-380: base_volume * volume_multiplier is base_price * 10000 +
\* abs(day_change) * 100000, three times that on an event day, times a
\* factor between 0.8 and 1.2, cut to an integer.
volume_of(base, day_change, event, tenths) ==
    LET plain == base \div 100 + Abs(day_change) \div 10
    IN  ((IF event THEN 3 * plain ELSE plain) * tenths) \div 10

\* One pass of the loop of lines 337-399, from the price before it and the
\* close of the point before (0 when there is none).
mock_step(base, price_before, close_before, i, draw, date) ==
    LET v == Variates[draw.d]
        current_price == Max2(price_before + draw.change, base \div 2)
        open_price == IF i > 0 THEN close_before
                      ELSE current_price + (current_price \div 1000) * v.open
        pt == [date |-> date,
               open |-> round2(open_price),
               high |-> round2(high_of(open_price, current_price, v.high)),
               low |-> round2(low_of(open_price, current_price, v.low)),
               close |-> round2(current_price),
               volume |-> volume_of(base, draw.change, draw.event, v.volume)]
    IN  [current_price |-> current_price, point |-> pt]

MockTickers == {"AAPL", "xyzq"}
MockTimeframes == {"1D", "1W", "1M", "3M", "1Y", "5Y", "2W"}
\* A Saturday 10:00 and the Monday 13:00 after it.
MockClocks == {2000 * Day + 10, 2002 * Day + 13}

InitMock ==
    /\ InitRelay
    /\ InitFetchState
    /\ InitAgent
    /\ has_key = TRUE
    /\ answer_scan = NoScan
    /\ InitDesks
    /\ \E ticker \in MockTickers, timeframe \in MockTimeframes, clock \in MockClocks :
          mock = [phase |-> "loop", ticker |-> Upper(ticker), timeframe |-> timeframe,
                  clock |-> clock, i |-> 0,
                  current_price |-> base_price(Upper(ticker)),
                  current_date |-> start_date(timeframe, clock),
                  last |-> NoPoint,
                  before |-> [price |-> 0, close |-> 0],
                  drawn |-> [change |-> 0, d |-> 1, event |-> FALSE]]

\* One pass of "for i in range(points)".
MockStep ==
    /\ mock.phase = "loop"
    /\ mock.i < points(mock.timeframe)
    /\ \E draw \in MockDraws(base_price(mock.ticker), points(mock.timeframe), mock.i) :
          LET r == mock_step(base_price(mock.ticker), mock.current_price, mock.last.close,
                             mock.i, draw, mock.current_date)
          IN  mock' = [mock EXCEPT !.i = @ + 1,
                                   !.current_price = r.current_price,
                                   !.current_date = next_date(mock.timeframe, @),
                                   !.last = r.point,
                                   !.before = [price |-> mock.current_price,
                                               close |-> mock.last.close],
                                   !.drawn = draw]
    /\ UNCHANGED <<relayVars, fetchVars, now, has_key, agentVars, answer_scan, deskVars>>

\* The loop is over and the result is returned.
MockReturn ==
    /\ mock.phase = "loop"
    /\ mock.i = points(mock.timeframe)
    /\ mock' = [mock EXCEPT !.phase = "returned"]
    /\ UNCHANGED <<relayVars, fetchVars, now, has_key, agentVars, answer_scan, deskVars>>

NextMock == MockStep \/ MockReturn

SpecMock == InitMock /\ [][NextMock]_vars

-----------------------------------------------------------------------------
InitFetch == InitRelay /\ InitFetchVars

NextFetch ==
    \/ Tick
    \/ \E ticker \in TickerInputs, timeframe \in TimeframeInputs :
          \E orc \in FetchInputs(ticker, timeframe) : Fetch(ticker, timeframe, orc)

SpecFetch == InitFetch /\ [][NextFetch]_vars

-----------------------------------------------------------------------------
(* Claims about get_chart_data *)

\* The cache key the claims speak of: the uppercased ticker and the interval.
ClaimKey(f) == Upper(f.ticker) \o "_" \o f.timeframe

Called(f) == f.path # "none"

\* C3: a fetch that arrives less than API_CALL_DELAY after the latest remote
\* call issues no remote call, and any two remote calls are at least
\* API_CALL_DELAY apart.
C3_RateGate ==
    /\ \A i \in 1..Len(remote_log), j \in 1..Len(remote_log) :
          i < j => remote_log[j] - remote_log[i] >= API_CALL_DELAY
    /\ (last_fetch.remote /\ Len(remote_log) >= 2) =>
          last_fetch.at - remote_log[Len(remote_log) - 1] >= API_CALL_DELAY
    /\ (Called(last_fetch) /\ ~last_fetch.remote /\ Len(remote_log) >= 1) =>
          remote_log[Len(remote_log)] <= last_fetch.at

\* Two remote calls were issued and a later fetch, inside the window of the
\* second, was answered without a remote call.
C3_Witness ==
    /\ Len(remote_log) >= 2
    /\ last_fetch.path = "gate"
    /\ last_fetch.at - remote_log[Len(remote_log)] < API_CALL_DELAY

\* The step is a second call for the arguments of the call before it, made
\* less than API_CALL_DELAY after it, and the call before found no cache entry.
SecondCallInWindow ==
    /\ Called(last_fetch)
    /\ last_fetch' # last_fetch
    /\ last_fetch'.ticker = last_fetch.ticker
    /\ last_fetch'.timeframe = last_fetch.timeframe
    /\ ClaimKey(last_fetch) \notin DOMAIN last_fetch.cache_before
    /\ last_fetch'.at - last_fetch.at < API_CALL_DELAY

\* C4: two consecutive calls fetch(ticker, interval) within one spacing
\* window, the first finding no cache entry, return identical series,
\* whatever the outcome of the first call.
C4_AnyOutcome ==
    [][SecondCallInWindow => last_fetch'.result = last_fetch.result]_vars

\* C5: a throttled remote call (429) returns a mock series and stores it under
\* the key of the call; a 403 and every other failure return an error-tagged
\* series with empty data and leave the cache as it was.
C5_RemoteFailure ==
    /\ last_fetch.path = "429" =>
          /\ last_fetch.result.kind = "mock"
          /\ DOMAIN api_cache = DOMAIN last_fetch.cache_before \cup {ClaimKey(last_fetch)}
          /\ api_cache[ClaimKey(last_fetch)] = last_fetch.result
          /\ \A k \in DOMAIN last_fetch.cache_before : api_cache[k] = last_fetch.cache_before[k]
    /\ last_fetch.path \in {"403", "500", "exception", "empty", "api_error"} =>
          /\ last_fetch.remote
          /\ last_fetch.result.kind = "error"
          /\ last_fetch.result.data = <<>>
          /\ api_cache = last_fetch.cache_before

\* A throttled call that added its mock series to a cache holding another key.
C5_Witness ==
    /\ last_fetch.path = "429"
    /\ DOMAIN last_fetch.cache_before # {}
    /\ api_cache[ClaimKey(last_fetch)].kind = "mock"

\* C6: a call that finds an entry under (uppercased ticker, interval) returns
\* that entry, issues no remote call and leaves the cache and the gate alone.
C6_CacheHit ==
    (Called(last_fetch) /\ ClaimKey(last_fetch) \in DOMAIN last_fetch.cache_before) =>
        /\ last_fetch.result = last_fetch.cache_before[ClaimKey(last_fetch)]
        /\ ~last_fetch.remote
        /\ api_cache = last_fetch.cache_before
        /\ last_api_call_time = last_fetch.gate_before
        /\ (Len(remote_log) >= 1 => remote_log[Len(remote_log)] = last_api_call_time)

\* A lowercase ticker served from the entry stored under the uppercase key,
\* at a time the gate would have let a remote call through.
C6_Witness ==
    /\ last_fetch.path = "hit"
    /\ last_fetch.ticker = "aapl"
    /\ last_fetch.at - last_api_call_time >= API_CALL_DELAY
    /\ has_key

\* C7: every call returns a series: real, mock, or error-tagged with empty data.
C7_Total ==
    Called(last_fetch) =>
        \/ last_fetch.result.kind \in {"real", "mock"} /\ last_fetch.result.data # <<>>
        \/ last_fetch.result.kind = "error" /\ last_fetch.result.data = <<>>

\* The remote call failed with an error that is no HTTP status.
C7_Witness ==
    /\ last_fetch.path = "exception"
    /\ last_fetch.result.kind = "error"

-----------------------------------------------------------------------------
(* Claims about ConnectionManager.broadcast *)

\* The number of copies of ev in the sequence q.
RECURSIVE Copies(_, _)
Copies(q, ev) ==
    IF q = <<>> THEN 0
    ELSE (IF Head(q) = ev THEN 1 ELSE 0) + Copies(Tail(q), ev)

\* C1: when the delivery of a broadcast to one connection fails, the event
\* still reaches every other connection that was registered throughout, is
\* not the excluded one and has a healthy transport.
C1_FailureIsolated ==
    \A w \in WS :
        h[w].done.failed # 0 =>
            \A c \in h[w].done.stable \ {h[w].done.exclude, h[w].done.failed} :
                tstate[c] = "open" => Copies(inbox[c], h[w].done.ev) >= 1

\* C2: whatever registrations and unregistrations interleave with a broadcast
\* that runs to its end, every connection registered throughout and not
\* excluded receives the event exactly once.
C2_ExactlyOnce ==
    \A w \in WS :
        h[w].done.ok =>
            \A c \in h[w].done.stable \ {h[w].done.exclude} :
                Copies(inbox[c], h[w].done.ev) = 1

-----------------------------------------------------------------------------
(* Claims about chart requests and the tickers the relay fetches *)

\* The events of the frame that handler w has in hand, as delivered to c.
Delivered(w, c) ==
    {inbox[c][i] : i \in {j \in 1..Len(inbox[c]) :
                            inbox[c][j].src = w /\ inbox[c][j].n = h[w].n}}

\* Handler w has sent, or tried to send, a chart_data event tagged with tag
\* for the frame in hand.
ChartDataIssued(w, tag) ==
    \/ \E c \in WS : \E ev \in Delivered(w, c) : ev.type = "chart_data" /\ ev.user_id = tag
    \/ h[w].done.ev.type = "chart_data" /\ h[w].done.ev.n = h[w].n /\ h[w].done.ev.user_id = tag

\* C8: a chart_request with an allow-listed ticker from a joined connection,
\* whatever it sent before, makes the relay call get_chart_data and broadcast
\* a chart_data event tagged with the requester's id.
C8_ChartRequestServed ==
    \A w \in WS :
        (h[w].req.type = "chart_request" /\ h[w].req.ticker \in valid_tickers) =>
            /\ h[w].req.fetched
            /\ ChartDataIssued(w, UserId(w))

\* C9: a chart_request whose ticker is empty or not allow-listed gets an error
\* event that reaches the requester and nobody else; get_chart_data is not
\* called and no chart_data event goes out.
C9_InvalidTickerRejected ==
    \A w \in WS :
        (h[w].req.type = "chart_request" /\ h[w].req.ticker \notin valid_tickers) =>
            /\ ~h[w].req.fetched
            /\ \E ev \in Delivered(w, w) : ev.type = "error"
            /\ \A c \in WS : \A ev \in Delivered(w, c) :
                   /\ ev.type # "chart_data"
                   /\ ev.type = "error" => c = w

\* A connection whose valid_tickers is assigned asked for XYZQ while another
\* client was registered and present, and was told the symbol is invalid.
C9_Witness ==
    \E w \in WS, c \in WS :
        /\ c # w
        /\ c \in Range(active_connections)
        /\ tstate[c] = "open"
        /\ h[w].valid_bound
        /\ h[w].req.type = "chart_request"
        /\ h[w].req.ticker = "XYZQ"
        /\ \E ev \in Delivered(w, w) : ev.content = "Invalid ticker symbol"

\* C10: every ticker the relay passes to get_chart_data is in the allow-list.
C10_FetchedTickerAllowed ==
    last_fetch.caller \in WS => last_fetch.ticker \in valid_tickers

-----------------------------------------------------------------------------
(* Claims about the life of a connection *)

\* A leave event issued by the handler of w.
IsLeaveOf(ev, w) == ev.src = w /\ ev.type = "system" /\ ev.content = "has left the chat"

\* C11: when a registered connection closes, by a disconnect or by an error
\* that leaves its message loop, it is removed from the registry and its
\* handler then broadcasts a leave event; a connection that closes before it
\* registered causes no leave event.
C11_LeaveAnnounced ==
    \A w \in WS :
        h[w].pc = "closed" =>
            IF h[w].user_connection
            THEN /\ w \notin Range(active_connections)
                 /\ IsLeaveOf(h[w].done.ev, w)
            ELSE \A c \in WS : \A i \in 1..Len(inbox[c]) : ~IsLeaveOf(inbox[c][i], w)

\* C12: a first frame that is no join payload (a chat message, a frame that
\* is no JSON) is answered with an error to its sender; it does not register
\* the connection, no join event goes out, and the handler goes on waiting
\* for a join.
C12_HandshakeRejectsOthers ==
    \A w \in WS :
        (h[w].n = 1 /\ h[w].req.type # "join") =>
            /\ ~h[w].user_connection
            /\ w \notin Range(active_connections)
            /\ \A c \in WS : \A i \in 1..Len(inbox[c]) :
                   ~(inbox[c][i].src = w /\ inbox[c][i].content = "has joined the chat")
            /\ \E i \in 1..Len(inbox[w]) : inbox[w][i].src = w /\ inbox[w][i].type = "error"
            /\ h[w].pc = "await_join"

\* C13: the registry never holds the same transport handle twice.
C13_NoDuplicateHandles ==
    \A i, j \in 1..Len(active_connections) :
        active_connections[i] = active_connections[j] => i = j

\* Two connections were registered, one of them is removed again, and the
\* one that remains has handled a message after its join.
C13_Witness ==
    /\ Len(active_connections) = 1
    /\ \E w \in Range(active_connections) : h[w].n >= 2
    /\ \E w \in WS : h[w].user_connection /\ w \notin Range(active_connections)

\* The places in the inbox of c of the events of types that handler w issued
\* for the frame in hand.
TurnEvents(w, c, types) ==
    {i \in 1..Len(inbox[c]) :
        inbox[c][i].src = w /\ inbox[c][i].n = h[w].n /\ inbox[c][i].type \in types}

OutputChunks(chunks) == {i \in 1..Len(chunks) : chunks[i].kind = "output"}

\* C14: when the connection that triggered an AI turn goes away while the
\* turn is streaming (it got some of the turn's stream events, not the
\* ai_complete marker), every other live connection still gets one ai_stream
\* event for every token of the turn, and the ai_complete marker.
C14_TurnSurvivesTriggerClose ==
    \A w \in WS : \A c \in WS \ {w} :
        ( /\ h[w].turn.on
          /\ h[w].pc \in {"receive", "closed"}
          /\ tstate[w] = "gone"
          /\ TurnEvents(w, w, {"ai_stream", "tool_call"}) # {}
          /\ TurnEvents(w, w, {"ai_complete"}) = {}
          /\ tstate[c] = "open"
          /\ c \in Range(active_connections) )
        => /\ Cardinality(TurnEvents(w, c, {"ai_stream"}))
                = Cardinality(OutputChunks(h[w].turn.chunks))
           /\ TurnEvents(w, c, {"ai_complete"}) # {}

\* The event the relay makes of a chunk (lines 535-581).
IsEventOf(ev, chunk) ==
    CASE chunk.kind = "output" -> ev.type = "ai_stream" /\ ev.content = chunk.output
      [] chunk.kind = "tool_call" -> ev.type = "tool_call" /\ ev.content = "started"
      [] OTHER -> ev.type = "tool_call" /\ ev.content = "completed"

\* C15: in every inbox the ai_stream and tool_call events of an AI turn stand
\* in the order in which the collaborator produced their chunks: the event
\* issued as the i-th of the stream is the event of the i-th chunk alone (an
\* ai_stream event carries exactly that token), and of two events of the turn
\* the one issued earlier stands earlier, so none comes twice.  (The chat
\* event and the AI typing event are the turn's first two.)
C15_StreamOrder ==
    \A w \in WS : \A c \in WS :
        h[w].turn.on =>
            LET at == TurnEvents(w, c, {"ai_stream", "tool_call"})
            IN  /\ \A i \in at :
                      /\ inbox[c][i].k - 2 \in 1..Len(h[w].turn.chunks)
                      /\ IsEventOf(inbox[c][i], h[w].turn.chunks[inbox[c][i].k - 2])
                /\ \A i, j \in at : i < j => inbox[c][i].k < inbox[c][j].k

\* A connection other than the triggering one has got a whole stream of five
\* events, tool calls among them.
C15_Witness ==
    \E w \in WS : \E c \in WS \ {w} :
        /\ h[w].turn.on
        /\ Len(h[w].turn.chunks) = 5
        /\ Cardinality(TurnEvents(w, c, {"ai_stream"})) = 3
        /\ Cardinality(TurnEvents(w, c, {"tool_call"})) = 2

\* C16: in every inbox an AI turn has at most one chart_data event, and it
\* stands after all ai_stream events of the turn and before the turn's
\* ai_complete marker.
C16_ChartBeforeComplete ==
    \A w \in WS : \A c \in WS :
        h[w].turn.on =>
            /\ Cardinality(TurnEvents(w, c, {"chart_data"})) <= 1
            /\ \A i \in TurnEvents(w, c, {"chart_data"}) :
                  /\ \A j \in TurnEvents(w, c, {"ai_stream"}) : j < i
                  /\ \A j \in TurnEvents(w, c, {"ai_complete"}) : i < j

\* C17: an AI turn of a connection that is still there when the turn is over
\* has called the broadcast of ai_complete exactly once, and the connection
\* is registered and back at reading its next frame.
C17_TurnCompletes ==
    \A w \in WS :
        (h[w].turn.on /\ tstate[w] = "open" /\ h[w].pc \in {"receive", "closed"}) =>
            /\ h[w].turn.completes = 1
            /\ h[w].pc = "receive"
            /\ w \in Range(active_connections)

\* C18: no chart_data event of an AI turn carries the error-tagged empty
\* series of a failed fetch, and an AI turn puts no error event about the
\* fetch into any inbox.
C18_FetchFailureSilent ==
    \A w \in WS : \A c \in WS :
        \A i \in 1..Len(inbox[c]) :
            LET ev == inbox[c][i]
            IN  /\ (ev.type = "chart_data" /\ ev.user_id = "ai_requested")
                       => ev.series.kind # "error"
                /\ (ev.src = w /\ ev.n = h[w].n /\ h[w].turn.on /\ ev.type = "error")
                       => ev.content # "Error fetching chart data"

C19_BlankDropped ==
    \E w \in WS :
        /\ h[w].n >= 2 /\ h[w].req.type = "chat" /\ h[w].req.content = " "
        /\ h[w].pc = "receive"

Reads(w, kinds) ==
    /\ h[w].pc = "receive"
    /\ h'[w].n = h[w].n + 1
    /\ h'[w].req.type \in kinds

InvalidStep ==
    \A w \in WS :
        Reads(w, {"invalid"}) =>
            /\ active_connections' = active_connections
            /\ \A c \in WS \ {w} : inbox'[c] = inbox[c]
            /\ Len(inbox'[w]) = Len(inbox[w]) + 1
            /\ inbox'[w][Len(inbox'[w])].type = "error"
            /\ inbox'[w][Len(inbox'[w])].content = "Invalid JSON format"
            /\ inbox'[w][Len(inbox'[w])].src = w
            /\ h'[w].pc = "receive"
            /\ h'[w].user_connection

\* The chat frame read after a frame that was no JSON is served as any other.
ServedAfter(kind) ==
    \A w \in WS :
        ( /\ h[w].prev = kind /\ h[w].req.type = "chat"
          /\ h[w].done.ev.type = "chat" /\ h[w].done.ev.n = h[w].n /\ h[w].done.ok
          /\ Len(active_connections) = SmallRoom )
        => \A c \in Range(active_connections) : Copies(inbox[c], h[w].done.ev) = 1

\* C21: a frame that is no JSON, read from a joined connection, makes the
\* relay send one error event to its sender and nothing to anybody else, the
\* registry is as before, the handler is back at reading, and the chat
\* frame it reads next is broadcast to everybody.
C21_InvalidJsonToSender == [][InvalidStep]_vars /\ []ServedAfter("invalid")

\* After a frame that was no JSON the same connection has sent a chat frame
\* and both connections have got it.
C21_Witness ==
    \E w \in WS :
        /\ h[w].prev = "invalid" /\ h[w].req.type = "chat"
        /\ h[w].done.ev.type = "chat" /\ h[w].done.ev.n = h[w].n /\ h[w].done.ok
        /\ \A c \in 1..SmallRoom : Copies(inbox[c], h[w].done.ev) = 1
        /\ \E i \in 1..Len(inbox[w]) : inbox[w][i].content = "Invalid JSON format"

\* C22: a frame without a type, or with a type that is none of chat,
\* chart_request and typing, read from a joined connection, makes the relay
\* send one error event to its sender and nothing to anybody else, and the
\* handler is back at reading, still registered.
C22_UnknownTypeReported ==
    [][\A w \in WS :
          Reads(w, {"", "ping"}) =>
              /\ Len(inbox'[w]) = Len(inbox[w]) + 1
              /\ inbox'[w][Len(inbox'[w])].type = "error"
              /\ \A c \in WS \ {w} : inbox'[c] = inbox[c]
              /\ h'[w].pc = "receive"
              /\ active_connections' = active_connections]_vars

\* The entries of ac other than w, in their order.
RECURSIVE Without(_, _)
Without(ac, w) ==
    IF ac = <<>> THEN <<>>
    ELSE IF Head(ac) = w THEN Without(Tail(ac), w)
    ELSE <<Head(ac)>> \o Without(Tail(ac), w)

\* C23: in every registry the relay reaches and for every transport,
\* disconnect removes the transport's entry, keeps the others in their order
\* and returns its username when the transport is registered; it returns
\* None and keeps the registry when it is not; and disconnect once more
\* returns None and changes nothing.
C23_UnregisterIdempotent ==
    \A w \in WS :
        LET S1 == disconnect(St, w)
        IN  /\ IF w \in Range(active_connections)
               THEN /\ disconnect_returns(St, w) = h[w].username
                    /\ S1.ac = Without(active_connections, w)
                    /\ Len(S1.ac) = Len(active_connections) - 1
               ELSE /\ disconnect_returns(St, w) = None
                    /\ S1.ac = active_connections
            /\ disconnect_returns(S1, w) = None
            /\ disconnect(S1, w).ac = S1.ac

\* The registry holds one connection; another transport was registered and
\* is removed, and a third was never registered.
C23_Witness ==
    /\ Len(active_connections) = 1
    /\ \E w \in WS : h[w].user_connection /\ w \notin Range(active_connections)
    /\ \E w \in WS : ~h[w].user_connection /\ tstate[w] = "idle"
    /\ \E w \in Range(active_connections) : h[w].username = "alice"

\* The entries of q are consecutive in the order of their appending and end
\* with the entry appended last.
MostRecent(q) ==
    /\ \A i \in 1..Len(q) : q[i].id = agent_runs.appended - Len(q) + i

\* C24: whenever no turn of the session is in flight, the stored history
\* holds at most 20 entries, and they are the entries appended last, in the
\* order of their appending.
C24_HistoryCapped ==
    agent_runs.running = 0 =>
        /\ Len(conversation_sessions) <= HISTORY_LIMIT
        /\ MostRecent(conversation_sessions)

\* The places of text at which pattern p captures an allow-listed symbol.
ValidCaptures(p, text) ==
    {i \in 1..Len(text) : MatchesAt(ticker_patterns[p], text, i) /\ text[i] \in valid_tickers}

\* C25: the scan of a text yields None or an allow-listed symbol: the symbol
\* captured leftmost in the text by the first pattern, in the order of the
\* list, that captures an allow-listed symbol anywhere; captures that are
\* not allow-listed count for nothing, and when no pattern captures an
\* allow-listed symbol the scan yields None.
C25_ScanAllowListed ==
    answer_scan.done =>
        LET ps == {p \in 1..Len(ticker_patterns) : ValidCaptures(p, answer_scan.text) # {}}
        IN  /\ answer_scan.found \in valid_tickers \cup {None}
            /\ IF ps = {} THEN answer_scan.found = None
               ELSE answer_scan.found =
                        answer_scan.text[Min(ValidCaptures(Min(ps), answer_scan.text))]

\* "TSLA stock for XYZQ about AAPL": the third pattern's capture stands
\* first in the text, the first pattern captures a symbol that is not
\* allow-listed, and the scan yields the second pattern's capture.
C25_Witness ==
    /\ answer_scan.done
    /\ answer_scan.text = <<"TSLA", "stock", "for", "XYZQ", "about", "AAPL">>
    /\ answer_scan.found = "AAPL"

\* C26: every point the generator appends has low <= min(open, close),
\* max(open, close) <= high and volume >= 0, as rounded.
C26_PointWellFormed ==
    mock.phase # "none" /\ mock.i >= 1 =>
        /\ mock.last.low <= Min2(mock.last.open, mock.last.close)
        /\ Max2(mock.last.open, mock.last.close) <= mock.last.high
        /\ mock.last.volume >= 0

\* A point of an event day on which the price fell to its floor: it opens
\* at the close of the day before, above its own close.
C26_Witness ==
    /\ mock.phase = "loop" /\ mock.i >= 2
    /\ mock.drawn.event
    /\ mock.last.open > mock.last.close
    /\ mock.last.close = round2(base_price(mock.ticker) \div 2)
    /\ mock.last.low < mock.last.close /\ mock.last.high > mock.last.open

\* The point counts of the intervals.
PointCount(timeframe) ==
    CASE timeframe = "1D" -> 24
      [] timeframe = "1W" -> 7
      [] timeframe = "1M" -> 22
      [] timeframe = "3M" -> 65
      [] timeframe = "1Y" -> 52
      [] timeframe = "5Y" -> 60

\* C27: whatever the ticker and the draws, the generator returns 24 points
\* for 1D, 7 for 1W, 22 for 1M, 65 for 3M, 52 for 1Y and 60 for 5Y; for an
\* interval token it does not know it returns 22 points whose dates are the
\* dates a run for 1M at the same time gives its points.
C27_PointCount ==
    /\ mock.phase = "returned" =>
          mock.i = IF mock.timeframe = "2W" THEN 22 ELSE PointCount(mock.timeframe)
    /\ (mock.phase # "none" /\ mock.i >= 1 /\ mock.timeframe = "2W") =>
          mock.last.date = date_of("1M", mock.clock, mock.i - 1)

\* A run for the unknown token has returned, its last point dated as the
\* last point of a 1M run, weekends skipped on the way.
C27_Witness ==
    /\ mock.phase = "returned" /\ mock.timeframe = "2W" /\ mock.i = 22
    /\ mock.last.date = date_of("1M", mock.clock, 21)
    /\ mock.last.date > start_date("1M", mock.clock) + 21 * Day

\* C28: a second run with the same ticker, the same interval and the same
\* variates (the same seed), whenever it is made, appends the same point as
\* this run at every pass: same date, prices and volume.
C28_Reproducible ==
    (mock.phase # "none" /\ mock.i >= 1) =>
        \A clock \in MockClocks :
            mock_step(base_price(mock.ticker), mock.before.price, mock.before.close,
                      mock.i - 1, mock.drawn,
                      date_of(mock.timeframe, clock, mock.i - 1)).point = mock.last

-----------------------------------------------------------------------------
\* C29: last_api_call_time changes only in a fetch that goes on to issue a
\* remote call, and is then the clock reading made immediately before the
\* call (the time the call is logged at); every fetch that issues a remote
\* call sets it; a cache hit, a rate-gate skip and a return for missing
\* credentials leave it as it was and issue no remote call.
C29_StampOnlyBeforeRemote ==
    [][ /\ (last_api_call_time' # last_api_call_time) =>
              /\ last_fetch'.remote
              /\ remote_log' = Append(remote_log, last_api_call_time')
              /\ now' = last_api_call_time'
        /\ (remote_log' # remote_log) =>
              /\ last_api_call_time' = remote_log'[Len(remote_log')]
              /\ last_api_call_time' # last_api_call_time
        /\ (last_fetch' # last_fetch /\ last_fetch'.path \in {"hit", "gate", "no_key"}) =>
              /\ last_api_call_time' = last_api_call_time
              /\ remote_log' = remote_log ]_vars

\* A remote call was issued after the clock had moved, and a later fetch
\* was stopped by the gate and found the stamp of that call and left it.
C29_Witness ==
    /\ Len(remote_log) >= 1
    /\ remote_log[Len(remote_log)] > StartTime
    /\ last_fetch.path = "gate"
    /\ last_fetch.gate_before = remote_log[Len(remote_log)]
    /\ last_api_call_time = last_fetch.gate_before

-----------------------------------------------------------------------------
\* The return statements of get_chart_data that store nothing.
NoStorePaths == {"hit", "gate", "no_key", "empty", "api_error", "403", "500", "exception"}

\* C30: api_cache changes only in a fetch whose remote call returned a
\* non-empty result or was throttled (429), and then by the one entry for
\* the fetch's key holding the series returned; a cache hit, a rate-gate
\* skip, a missing-credentials return, an empty or error remote answer, an
\* authentication failure and any other failure leave it unchanged; and no
\* entry of the cache is ever an error-tagged or empty series.
C30_CacheOnlyGoodSeries ==
    /\ [][ /\ (api_cache' # api_cache) =>
                 /\ last_fetch'.remote
                 /\ last_fetch'.path \in {"results", "429"}
                 /\ last_fetch'.path = "results" => last_fetch'.result.kind = "real"
                 /\ last_fetch'.path = "429" => last_fetch'.result.kind = "mock"
                 /\ api_cache' = CachePut(api_cache,
                                          CacheKey(last_fetch'.ticker, last_fetch'.timeframe),
                                          last_fetch'.result)
           /\ (last_fetch' # last_fetch /\ last_fetch'.path \in NoStorePaths) =>
                 api_cache' = api_cache ]_vars
    /\ [](\A k \in DOMAIN api_cache :
              /\ api_cache[k].kind \in {"real", "mock"}
              /\ api_cache[k].error = ""
              /\ api_cache[k].data # <<>>)

\* The cache holds a synthetic series stored after a 429, and the last
\* fetch, for a key not in the cache, failed with another status and left
\* the cache as it found it.
C30_Witness ==
    /\ \E k \in DOMAIN api_cache : api_cache[k].kind = "mock"
    /\ last_fetch.path = "500"
    /\ last_fetch.result.kind = "error"
    /\ last_fetch.cache_before = api_cache
    /\ CacheKey(last_fetch.ticker, last_fetch.timeframe) \notin DOMAIN api_cache

-----------------------------------------------------------------------------
-----------------------------------------------------------------------------
\* The handler of w has unregistered and is in the leave broadcast, or a send
\* of that broadcast has raised.
Leaving(w) ==
    \/ h[w].pc = "sending" /\ h[w].bc.site = "leave"
    \/ h[w].pc = "raised" /\ h[w].site = "leave"

\* C32: a connection is in the registry exactly when its handler has read
\* its first frame and registered, and has neither ended nor begun its
\* leave: nothing is registered while the handler waits for the first frame,
\* and no handler that has ended, by a disconnect or by an error, has its
\* connection in the registry.
C32_RegistryIsLiveHandlers ==
    \A w \in WS :
        /\ w \in Range(active_connections) <=>
               (h[w].user_connection /\ h[w].pc # "closed" /\ ~Leaving(w))
        /\ h[w].user_connection => h[w].n >= 1
        /\ h[w].pc \in {"init", "await_join"} => ~h[w].user_connection

\* One handler ended by an error after it had registered (its last broadcast
\* is no leave event), another is registered and waits for frames.
C32_Witness ==
    /\ \E w \in WS : /\ h[w].pc = "closed"
                     /\ h[w].user_connection
                     /\ ~IsLeaveOf(h[w].done.ev, w)
                     /\ w \notin Range(active_connections)
    /\ \E w \in WS : h[w].pc = "receive" /\ w \in Range(active_connections)

-----------------------------------------------------------------------------
\* The {user_id, username} pairs of a registry, entry by entry.
UsersOf(ac, hh) == [i \in 1..Len(ac) |-> <<UserId(ac[i]), hh[ac[i]].username>>]

IsJoinOf(ev, w) == ev.src = w /\ ev.type = "system" /\ ev.content = "has joined the chat"

\* The event of the broadcast handler w has begun in the step.
Begun(w) == IF h'[w].pc = "sending" THEN h'[w].bc.ev ELSE h'[w].done.ev

\* In the step in which handler w registers, it begins the broadcast of one
\* join event, to nobody excluded, whose users list is the registry with
\* the new entry at its end.
JoinStep ==
    \A w \in WS :
        (~h[w].user_connection /\ h'[w].user_connection) =>
            /\ active_connections' = Append(active_connections, w)
            /\ IsJoinOf(Begun(w), w)
            /\ Begun(w).users = UsersOf(active_connections', h')
            /\ Begun(w).users[Len(Begun(w).users)] = <<UserId(w), h'[w].username>>
            /\ h'[w].pc = "sending" => h'[w].bc.exclude = 0

\* In the step in which handler w begins a leave event, its entry has been
\* removed and the users list is the registry without it.
LeaveStep ==
    \A w \in WS :
        (w \in Range(active_connections) /\ IsLeaveOf(Begun(w), w)) =>
            /\ w \notin Range(active_connections')
            /\ Begun(w).users = UsersOf(active_connections', h')

-----------------------------------------------------------------------------
IsAiTyping(ev) == ev.type = "typing" /\ ev.user_id = "ai"

\* The events of an AI turn.
AiEventTypes == {"ai_stream", "tool_call", "ai_complete", "chart_data", "update_chart"}

\* C34: for a chat frame the chat event is the first message the handler
\* issues, the AI typing indicator the second, and every ai_stream and
\* tool_call event comes after both, and they stand in every inbox in that
\* order; a chat frame with the AI toggle off is followed by no typing,
\* ai_stream, tool_call, ai_complete or chart_data event, no AI turn and no
\* fetch.
C34_ChatThenTypingThenStream ==
    /\ \A c \in WS : \A i \in 1..Len(inbox[c]) :
          LET ev == inbox[c][i]
          IN  /\ (ev.type = "chat" /\ ev.n >= 2) => ev.k = 1
              /\ IsAiTyping(ev) => ev.k = 2
              /\ ev.type \in {"ai_stream", "tool_call"} => ev.k >= 3
              /\ \A j \in 1..Len(inbox[c]) :
                    (i < j /\ inbox[c][j].src = ev.src /\ inbox[c][j].n = ev.n)
                        => ev.k < inbox[c][j].k
    /\ \A w \in WS :
          (h[w].n >= 2 /\ h[w].req.type = "chat" /\ ~h[w].req.ai_toggle) =>
              /\ \A c \in WS : TurnEvents(w, c, AiEventTypes \cup {"typing"}) = {}
              /\ ~h[w].turn.on
              /\ ~h[w].req.fetched

\* One connection holds the chat event, the AI typing indicator, a tool_call
\* and an ai_stream event of a turn, and the other client's chat message
\* with the toggle off has been broadcast and its handler reads again.
C34_Witness ==
    \E w, x \in WS :
        /\ w # x
        /\ h[w].req.ai_toggle /\ h[w].turn.on
        /\ \E c \in WS : \A t \in {"chat", "typing", "tool_call", "ai_stream"} :
              TurnEvents(w, c, {t}) # {}
        /\ h[x].n >= 2 /\ h[x].req.type = "chat" /\ ~h[x].req.ai_toggle
        /\ h[x].pc = "receive"
        /\ h[x].done.ev.type = "chat" /\ h[x].done.ev.n = h[x].n /\ h[x].done.ok

-----------------------------------------------------------------------------
\* The chunks of the turn of w that the handler has taken from the generator.
Consumed(w) ==
    SubSeq(h[w].turn.chunks, 1, Len(h[w].turn.chunks) - Len(h[w].chunks))

\* The places of the charting tool calls among them.
ChartCalls(w) ==
    {i \in 1..Len(Consumed(w)) :
        Consumed(w)[i].kind = "tool_call" /\ Consumed(w)[i].name = "PolygonStockChartTool"}

Max(S) == CHOOSE x \in S : \A y \in S : x >= y

\* The handler of w is past the scan of its turn and its locals are live.
PastScan(w) ==
    /\ h[w].turn.on /\ h[w].turn.completes >= 1
    /\ \/ h[w].pc = "sending" /\ h[w].bc.site \in {"ai_complete", "ai_chart", "update_chart"}
       \/ h[w].pc = "raised" /\ h[w].site \in {"ai_complete", "ai_chart", "update_chart"}

\* C35: after the stream of a turn, when the turn had a charting tool call
\* the chart ticker is the ticker of that call, whatever the text scan would
\* find; when it had none and the text is empty there is no chart ticker;
\* when it had none and there is text the chart ticker is what the scan
\* finds; and the fetch of the turn is made for the chart ticker.
C35_ScanOnlyWithoutToolCall ==
    \A w \in WS :
        PastScan(w) =>
            /\ IF ChartCalls(w) # {}
               THEN /\ h[w].stock_chart_requested
                    /\ h[w].chart_ticker = Consumed(w)[Max(ChartCalls(w))].ticker
               ELSE IF h[w].ai_response = <<>>
               THEN ~h[w].stock_chart_requested /\ h[w].chart_ticker = None
               ELSE /\ h[w].chart_ticker = ScanTickers(h[w].ai_response)
                    /\ h[w].stock_chart_requested <=> (h[w].chart_ticker # None)
            /\ h[w].req.fetched => (last_fetch.caller = w => last_fetch.ticker = h[w].chart_ticker)

\* A turn had a charting tool call for XYZQ and a text in which the scan
\* finds TSLA; its fetch was made for XYZQ.
C35_Witness ==
    \E w \in WS :
        /\ PastScan(w)
        /\ ChartCalls(w) # {}
        /\ ScanTickers(h[w].ai_response) = "TSLA"
        /\ h[w].chart_ticker = "XYZQ"
        /\ h[w].req.fetched /\ last_fetch.caller = w /\ last_fetch.ticker = "XYZQ"

-----------------------------------------------------------------------------
ToolFetchIsWeekly ==
    (tool_turn.phase = "fetched") =>
        /\ tool_turn.ev.name = "PolygonStockChartTool"
        /\ last_fetch.ticker = tool_turn.ev.ticker
        /\ last_fetch.timeframe = "1W"

\* The chart tool was called with timeframe 1M and the fetch was made.
ToolFetchOfMonth ==
    /\ tool_turn.phase = "fetched"
    /\ tool_turn.ev.timeframe = "1M"
    /\ tool_turn.chart_timeframe = "1M"

-----------------------------------------------------------------------------
\* C37: the context run_agent builds for a turn of a connection holds only
\* entries that the turns of that connection appended, and a connection's
\* turn appends to a history no other connection has appended to, also when
\* the other connection was opened with the same user_id.
C37_ContextIsOwn ==
    /\ \A i \in 1..Len(agent_ctx.context) : agent_ctx.context[i] = agent_ctx.reader
    /\ \A i, j \in 1..Len(agent_ctx.owner) : agent_ctx.owner[i] = agent_ctx.owner[j]

\* The history of a user_id holds the entries of every connection opened
\* with it, one entry of agent_ctx.owner for each entry of the history.
SessionIsPerUser ==
    /\ Len(agent_ctx.owner) = Len(conversation_sessions)
    /\ agent_ctx.reader # 0 => agent_ctx.reader \in SameUser
    /\ \A i \in 1..Len(agent_ctx.context) : agent_ctx.context[i] \in SameUser

\* The second connection of a user_id has asked after the first was
\* answered, and the context of its query holds the first one's exchange.
SessionShared ==
    /\ agent_ctx.reader = 2
    /\ agent_ctx.context = <<1, 1>>

-----------------------------------------------------------------------------
\* C38: while the handler of one connection waits for the remote
\* market-data call or for the answer of the AI, the handler of any other
\* connection at whose socket a frame waits can read and process it.
C38_WaitsDoNotStall ==
    \A w, x \in WS :
        (loop.holder = w /\ x # w /\ loop.pending[x] > 0) => ENABLED ReadFrame(x)

\* While a blocking call is in progress no handler reads a frame, and with
\* the thread free every waiting frame can be read.
LoopHeld ==
    /\ loop.holder # 0 => \A x \in WS : ~ENABLED ReadFrame(x) /\ ~loop.read[x]
    /\ loop.holder = 0 => \A x \in WS : loop.pending[x] > 0 => ENABLED ReadFrame(x)

\* A handler waits for the remote call while frames wait at both other
\* sockets.
LoopStalled ==
    /\ loop.holder = 1 /\ loop.wait = "remote"
    /\ loop.pending[2] > 0 /\ loop.pending[3] > 0

-----------------------------------------------------------------------------
DailyTimeframes == {"1W", "1M", "3M"}

\* The dates of the points are strictly ascending: the point appended last
\* lies before the date the next point would get.
DatesAscend == mock.phase # "none" /\ mock.i >= 1 => mock.last.date < mock.current_date

\* C39: for 1W, 1M and 3M no point of a generated series lies on a Saturday
\* or a Sunday, on whatever weekday the generator runs, and the dates of
\* every generated series are strictly ascending.
C39_NoWeekendPoints ==
    /\ (mock.phase # "none" /\ mock.i >= 1 /\ mock.timeframe \in DailyTimeframes) =>
           weekday(mock.last.date) <= 4
    /\ DatesAscend

\* Every point after the first of a daily series lies on a weekday, and the
\* dates ascend.
WeekdaysAfterFirst ==
    /\ (mock.phase # "none" /\ mock.i >= 2 /\ mock.timeframe \in DailyTimeframes) =>
           weekday(mock.last.date) <= 4
    /\ DatesAscend

\* The generator ran on a Saturday for 1W and its first point lies on the
\* Saturday a week before.
FirstPointOnSaturday ==
    /\ mock.phase # "none" /\ mock.i = 1 /\ mock.timeframe = "1W"
    /\ weekday(mock.clock) = 5
    /\ weekday(mock.last.date) = 5

====
